---- MODULE Spec2Model ----
(***************************************************************************)
(* A model of the HamsterMonitor activity-inference pipeline.              *)
(*                                                                         *)
(*   SpecCam    src/src/cameras/camera_manager.py: the camera-0 feed       *)
(*              thread, the bounded frame queue, the dispatch worker with  *)
(*              its failure counter, and get_activity_status.              *)
(*                                                                         *)
(*   SpecSensor src/src/sensors/sensor_manager.py: the background reading   *)
(*              loop, the read cycle with its three attempts, and          *)
(*              get_readings.  Time is counted in ticks of 0.1 s.          *)
(*                                                                         *)
(*   SpecZone   src/main.py: generate_camera_frames driving                 *)
(*              detect_hamster_activity, and POST /config.  A frame is     *)
(*              given by what OpenCV measures on it: the pixel counts of   *)
(*              the thresholded motion mask, in all and inside each zone.  *)
(*                                                                         *)
(*   SpecAI     src/ai_activity_detector.py: detect_activity with its       *)
(*              motion history and activity history, and                   *)
(*              get_activity_pattern.  Scores are exact multiples of       *)
(*              1/2520000, so that 1.0 is One and every mean of up to ten  *)
(*              intensities is a whole number of units.                    *)
(*                                                                         *)
(* Frames are identified by the value frame_count had when they were read  *)
(* (the k-th successfully captured frame has id k).  Probabilities are     *)
(* kept in percent (0.0 is 0).                                             *)
(***************************************************************************)
EXTENDS Integers, Sequences, FiniteSets, TLC

VARIABLES
    \* ---- src/src/main.py ----
    mainPc,               \* main(): "serving" (in server.run()), "cleanup" (KeyboardInterrupt
                          \* caught, the finally block runs) or "exited"
    \* ---- CameraManager (camera_manager.py) ----
    frame_queue,          \* self.frame_queue: the queued frames, oldest first
    api_error_count,      \* self.api_error_count
    last_activity_result, \* self.last_activity_result ('activity', 'activity_probability')
    feedPc,               \* _feed_camera0_frames: "start", "loop" or "exited"
    frame_count,          \* the local frame_count of _feed_camera0_frames
    workerPc,             \* _process_frame_async: "get" (at frame_queue.get) or "post" (in requests.post)
    workerFrame,          \* the frame the worker dequeued and is posting (NoFrame if none)
    \* ---- history of the camera pipeline (observation only) ----
    feedEvent,            \* what the last iteration of the feed loop did
    submitted,            \* ids of the frames the feed loop offered to the queue
    accepted,             \* ids of the frames the queue accepted, in order
    dequeued,             \* ids of the frames the worker dequeued, in order
    lastCall,             \* the kind of the last completed worker iteration
    failRun,              \* number of consecutive raising remote calls up to now
    prevCount,            \* api_error_count before the last completed worker iteration
    prevResult,           \* last_activity_result before the last completed worker iteration
    completed,            \* number of dequeued frames the worker has finished with (the call
                          \* returned or raised, or the frame could not be encoded)
    \* ---- a caller of get_activity_status (a /camera<n> stream of web/server.py) ----
    statusPc,             \* "idle", or the read the call is about to make: "count", "activity", "probability"
    statusActivity,       \* the value of last_activity_result['activity'] the call has read
    \* ---- history of that call (observation only) ----
    statusResult,         \* what the last finished call returned ("none" before the first)
    observed,             \* every <<api_error_count, last_activity_result>> there has been since
                          \* the current (or last) call began
    \* ---- SensorManager (sensor_manager.py) ----
    last_readings,        \* self.last_readings
    sensorPc,             \* _background_reading_loop: "idle" (line 116) or "reading" (in _read_sensors)
    attempt,              \* the loop variable of _read_sensors
    now,                  \* time.time(), in ticks of 0.1 s
    \* ---- history of the sensor loop (observation only) ----
    cycleReadings,        \* last_readings when the current (or last) read cycle started
    lastCycle,            \* how the last finished read cycle ended: "none", "ok", "failed"
    attemptsMade,         \* attempts made in the current (or last) read cycle
    cycleStarts,          \* the times at which the last two read cycles were started
    mqFailed,             \* whether the last attempt read the MQ-135 channel and that read raised
    \* ---- a caller of get_readings (a stream thread or GET /status) ----
    readPc,               \* 0 outside a call, else the number (1..4) of the field read next
    readPartial,          \* the values the call has read so far, in order
    \* ---- history of that call (observation only) ----
    readingsResult,       \* what the last finished call returned (<<>> before the first)
    readingsSeen,         \* every value last_readings has had since the current (or last)
                          \* call began
    \* ---- the primary capture device and a /camera0 stream of the web server ----
    camera0,              \* number of frames the primary capture device has delivered
    webPc,                \* _generate_frames(0): "none", "loop" or "ended"
    webCount,             \* number of frames _generate_frames(0) has read
    \* ---- history of the capture device (observation only) ----
    submittedDevice,      \* the frames the feed loop submitted to the queue, by their
                          \* number in the device's sequence of frames (from 1)
    \* ---- the /camera1 streams of src/main.py (one generator per connected client) ----
    genPc,                \* per client: "none", "read" (at camera.read), "detect" (holding a
                          \* frame, at detect_hamster_activity) or "ended"
    genFrame,             \* per client: the frame <<number, mean luminance>> it holds, or <<>>
    genCamera,            \* per client: the capture device its generator was given
    genSubtractor,        \* per client: the background subtractor its generator was given
    genPrev,              \* per client: prev_frame of its generator, <<>> for None, else
                          \* <<frame number, "gray" or "bgr">>
    camera1,              \* number of frames the global capture device has delivered
    bg_subtractor1,       \* the frames applied to the global background model, in order,
                          \* each as <<client, frame number>>
    \* ---- history of the streams (observation only) ----
    maskParams,           \* luminance of the frame of the last detection call and the
                          \* cutoff and kernel size it used (<<>> before the first)
    genLast,              \* per client: number of the frame of its last call of
                          \* detect_hamster_activity (0 before the first)
    maskSource,           \* of the last call of detect_hamster_activity: its client, frame
                          \* number, whether background subtraction left fewer than 100
                          \* pixels, the prev_frame it was given, genLast before it, and where
                          \* its mask came from (<<>> before the first call)
    \* ---- main.py: the zone/motion classifier of one /camera1 stream ----
    config,               \* the global config
    streamPc,             \* generate_camera_frames: "running", "ended" (read failed) or "crashed"
    prev_activity,        \* local of generate_camera_frames
    no_movement_frames,   \* local of generate_camera_frames
    prev_frame,           \* local of generate_camera_frames: "None", "gray" or "bgr" (what kind of image)
    \* ---- history of the stream (observation only) ----
    lastFrame,            \* the measurements of the last frame classified
    lastConfig,           \* the config the last call of detect_hamster_activity ran under
    lastLabel,            \* the label that call returned
    zeroRun,              \* consecutive classified frames with an all-zero mask, up to now
    belowFlags,           \* for the last RunWindow classified frames, oldest first, whether
                          \* total motion was below the movement threshold of the call
    \* ---- one call of detect_hamster_activity taken read by read ----
    callPc,               \* 0 outside a call, else the line of the next read of config
                          \* (129, 135, 137, 139, 141, 143) or 235 when the call has returned
    callFrame,            \* the measurements of the frame of the call
    callSparse,           \* whether background subtraction left fewer than 100 pixels
    callCounter,          \* the local no_movement_frames of the call
    callResult,           \* the triple the call returned
    \* ---- history of that call (observation only) ----
    callSeen,             \* every value the global config has had since the call began
    \* ---- HamsterActivityDetector (ai_activity_detector.py) ----
    activity_history,     \* self.activity_history
    motion_history,       \* self.motion_history
    \* ---- history of the detector (observation only) ----
    allResults,           \* every activity_probs detect_activity has recorded, in order
    lastActivity          \* the label the last detect_activity returned

camVars == <<frame_queue, api_error_count, last_activity_result, feedPc, frame_count,
             workerPc, workerFrame>>
camHist == <<feedEvent, submitted, accepted, dequeued, lastCall, failRun, prevCount, prevResult>>

statusVars == <<statusPc, statusActivity, statusResult>>

camAll == <<camVars, camHist, completed, statusVars, observed>>

sensorVars == <<last_readings, sensorPc, attempt, now>>
sensorHist == <<cycleReadings, lastCycle, attemptsMade, cycleStarts, mqFailed>>
readerVars == <<readPc, readPartial, readingsResult>>
sensorAll == <<sensorVars, sensorHist, readerVars, readingsSeen>>

zoneVars == <<config, streamPc, prev_activity, no_movement_frames, prev_frame>>
zoneHist == <<lastFrame, lastConfig, lastLabel, zeroRun, belowFlags>>
callVars == <<callPc, callFrame, callSparse, callCounter, callResult>>
zoneAll == <<zoneVars, zoneHist, callVars, callSeen>>

aiVars == <<activity_history, motion_history>>
aiHist == <<allResults, lastActivity>>
aiAll == <<aiVars, aiHist>>

genVars == <<genPc, genFrame, genCamera, genSubtractor, genPrev, camera1, bg_subtractor1>>
genHist == <<maskParams, genLast, maskSource>>
streamsAll == <<genVars, genHist>>

captureAll == <<camera0, webPc, webCount, submittedDevice>>

vars == <<mainPc, camAll, sensorAll, zoneAll, aiAll, streamsAll, captureAll>>

\* what the steps of one component leave alone
notCam == <<mainPc, statusVars, sensorAll, zoneAll, aiAll, streamsAll, captureAll>>
notStatus == <<mainPc, camVars, camHist, completed, sensorAll, zoneAll, aiAll, streamsAll, captureAll>>
notSensor == <<mainPc, camAll, zoneAll, aiAll, streamsAll, captureAll>>
notZone == <<mainPc, camAll, sensorAll, aiAll, streamsAll, captureAll>>
notAI == <<mainPc, camAll, sensorAll, zoneAll, streamsAll, captureAll>>
notStreams == <<mainPc, camAll, sensorAll, zoneAll, aiAll, captureAll>>
notCapture == <<mainPc, camAll, sensorAll, zoneAll, aiAll, streamsAll>>
notReader == <<mainPc, camAll, sensorVars, sensorHist, zoneAll, aiAll, streamsAll, captureAll>>

(***************************************************************************)
(* Program constants.                                                      *)
(***************************************************************************)
QUEUE_MAXSIZE == 10
FRAME_SKIP == 3
API_ERROR_THRESHOLD == 3

(***************************************************************************)
(* Bounds of the model.                                                    *)
(***************************************************************************)
MaxFrames == 34      \* successful camera reads explored
MaxCaptured == 5     \* frames the primary capture device delivers while it is streamed
MaxErrors == 5       \* api_error_count explored up to this value
StatusFrames == 7    \* successful camera reads explored while get_activity_status is called
HandlerFrames == 6   \* frames captured while get_activity_status and get_readings are called
PipelineFrames == 4  \* successful camera reads explored next to the sensor loop
PipelineTicks == 8   \* ticks of wall-clock time explored next to the camera pipeline

NoFrame == -1

(***************************************************************************)
(* The remote service's answers.  A call either raises a                   *)
(* requests.RequestException (timeout, connection error) or returns a      *)
(* response with a status code and a body.                                 *)
(***************************************************************************)
RemoteLabels == {"Resting", "Exploring"}
RemoteProbs == {60}
StatusCodes == {200, 500}

\* body kinds:
\*   "result"      a JSON object with activity and activity_probability
\*   "partial"     a JSON object with activity but no activity_probability
\*   "nofields"    a JSON object with neither field
\*   "nondict"     valid JSON that is no object (a number, a string, null)
\*   "unparseable" not JSON
Bodies ==
    [kind : {"result"}, activity : RemoteLabels, activity_probability : RemoteProbs]
    \cup [kind : {"partial"}, activity : RemoteLabels, activity_probability : {0}]
    \cup [kind : {"nofields", "nondict", "unparseable"}, activity : {"-"}, activity_probability : {0}]

Outcomes ==
    [raised : {TRUE}, exc : {"Timeout", "ConnectionError"}, status : {0},
     body : {[kind |-> "nofields", activity |-> "-", activity_probability |-> 0]}]
    \cup [raised : {FALSE}, exc : {"-"}, status : StatusCodes, body : Bodies]

InitialResult == [activity |-> "Unknown", activity_probability |-> 0]

\* How the history names an outcome: "raised", "non2xx", or for a 200 response the
\* kind of its body.
CallKind(o) ==
    IF o.raised THEN "raised"
    ELSE IF o.status \in 200..299 THEN o.body.kind ELSE "non2xx"

\* dict.update(response.json()) for a JSON object: the keys of the body replace
\* the keys of the slot, every other key of the slot stays.
DictUpdate(slot, body) ==
    CASE body.kind = "result" ->
            [activity |-> body.activity, activity_probability |-> body.activity_probability]
      [] body.kind = "partial" ->
            [slot EXCEPT !.activity = body.activity]
      [] OTHER -> slot

\* What one pass through lines 52-63 does to (api_error_count, last_activity_result)
\* for a given outcome of requests.post:
\*   kind "error"    except (RequestException, JSONDecodeError): count + 1
\*   kind "success"  status 200 and a JSON object: update, count := 0
\*   kind "crash"    status 200 and JSON that is no object: update raises TypeError,
\*                   caught by the outer except Exception: nothing changes
\*   kind "ignored"  status other than 200: nothing changes
PostKind(o) ==
    IF o.raised THEN "error"
    ELSE IF o.status = 200
         THEN CASE o.body.kind = "unparseable" -> "error"
                [] o.body.kind = "nondict" -> "crash"
                [] OTHER -> "success"
         ELSE "ignored"

CountAfterSticky(count, o) ==
    CASE PostKind(o) = "error" -> IF count = 0 THEN 1 ELSE count
      [] PostKind(o) = "success" -> 0
      [] OTHER -> count

CountAfter(count, o) ==
    CASE PostKind(o) = "error" -> count + 1
      [] PostKind(o) = "success" -> 0
      [] OTHER -> count

ResultAfter(slot, o) ==
    IF PostKind(o) = "success" THEN DictUpdate(slot, o.body) ELSE slot

StatusOfStrict(count, slot) ==
    IF count > API_ERROR_THRESHOLD
    THEN <<"API Unavailable", 0>>
    ELSE <<slot.activity, slot.activity_probability>>

\* get_activity_status
StatusOf(count, slot) ==
    IF count >= API_ERROR_THRESHOLD
    THEN <<"API Unavailable", 0>>
    ELSE <<slot.activity, slot.activity_probability>>

get_activity_status == StatusOf(api_error_count, last_activity_result)

(***************************************************************************)
(* CameraManager.__init__                                                  *)
(***************************************************************************)
CamInit ==
    /\ frame_queue = <<>>
    /\ api_error_count = 0
    /\ last_activity_result = InitialResult
    /\ feedPc = "start"
    /\ frame_count = 0
    /\ workerPc = "get"
    /\ workerFrame = NoFrame
    /\ feedEvent = "none"
    /\ submitted = {}
    /\ accepted = <<>>
    /\ dequeued = <<>>
    /\ lastCall = "none"
    /\ failRun = 0
    /\ prevCount = 0
    /\ prevResult = InitialResult
    /\ completed = 0

(***************************************************************************)
(* _feed_camera0_frames                                                    *)
(***************************************************************************)
\* lines 72-77: the thread ends at once when camera 0 was not initialized
FeedStart ==
    /\ feedPc = "start"
    /\ \E opened \in BOOLEAN : feedPc' = IF opened THEN "loop" ELSE "exited"
    /\ UNCHANGED <<frame_queue, api_error_count, last_activity_result, frame_count,
                   workerPc, workerFrame, camHist>>
    /\ UNCHANGED <<notCam, observed, completed>>

\* break in place of continue
FeedReadFailBreak ==
    /\ feedPc = "loop"
    /\ feedEvent' = "readfail"
    /\ feedPc' = "exited"
    /\ UNCHANGED <<frame_queue, api_error_count, last_activity_result, frame_count, workerPc,
                   workerFrame, submitted, accepted, dequeued, lastCall, failRun, prevCount,
                   prevResult>>
    /\ UNCHANGED <<notCam, observed, completed>>

\* a failed read that still advances the stride counter
FeedReadFailCounts ==
    /\ feedPc = "loop"
    /\ frame_count < MaxFrames
    /\ feedEvent' = "readfail"
    /\ frame_count' = frame_count + 1
    /\ UNCHANGED <<frame_queue, api_error_count, last_activity_result, feedPc, workerPc,
                   workerFrame, submitted, accepted, dequeued, lastCall, failRun, prevCount,
                   prevResult>>
    /\ UNCHANGED <<notCam, observed, completed>>

\* lines 80-83: camera.read() fails; continue
FeedReadFail ==
    /\ feedPc = "loop"
    /\ feedEvent' = "readfail"
    /\ UNCHANGED <<camVars, submitted, accepted, dequeued, lastCall, failRun, prevCount, prevResult>>
    /\ UNCHANGED <<notCam, observed, completed>>

QueuePutOverwrite(q, f) ==
    IF Len(q) >= QUEUE_MAXSIZE THEN [queue |-> Append(Tail(q), f), ok |-> FALSE]
    ELSE [queue |-> Append(q, f), ok |-> TRUE]

\* Queue.put(frame, block=False): the queue and whether the frame was taken
QueuePut(q, f) ==
    IF Len(q) >= QUEUE_MAXSIZE THEN [queue |-> q, ok |-> FALSE]
    ELSE [queue |-> Append(q, f), ok |-> TRUE]

SampledAfterCount(k) == (k + 1) % FRAME_SKIP = 0

\* the stride test of line 86
Sampled(k) == k % FRAME_SKIP = 0

\* lines 80-92: a successful read
FeedFrame ==
    /\ feedPc = "loop"
    /\ frame_count < MaxFrames
    /\ LET f == frame_count
           r == QueuePut(frame_queue, f)
       IN  IF Sampled(f)
           THEN /\ frame_queue' = r.queue
                /\ submitted' = submitted \cup {f}
                /\ accepted' = IF r.ok THEN Append(accepted, f) ELSE accepted
                /\ feedEvent' = IF r.ok THEN "enqueued" ELSE "dropped"
           ELSE /\ UNCHANGED <<frame_queue, submitted, accepted>>
                /\ feedEvent' = "skipped"
    /\ frame_count' = frame_count + 1
    /\ camera0' = camera0 + 1
    /\ submittedDevice' = IF Sampled(frame_count) THEN submittedDevice \cup {camera0 + 1}
                          ELSE submittedDevice
    /\ UNCHANGED <<api_error_count, last_activity_result, feedPc, workerPc, workerFrame,
                   dequeued, lastCall, failRun, prevCount, prevResult>>
    /\ UNCHANGED <<mainPc, statusVars, sensorAll, zoneAll, aiAll, streamsAll, webPc, webCount,
                   observed, completed>>

(***************************************************************************)
(* WebServer._generate_frames(0): the stream of the primary camera.  It is *)
(* given the capture object the feed loop reads (get_camera(0) is          *)
(* self.cameras.get(0)), so a frame the device delivers to one of the two  *)
(* loops is not delivered to the other.                                    *)
(***************************************************************************)
CaptureInit ==
    /\ camera0 = 0
    /\ webPc = "none"
    /\ webCount = 0
    /\ submittedDevice = {}

\* server.py lines 117-122 and 70-74: GET /camera0 starts the generator
camera_feed ==
    /\ webPc = "none"
    /\ feedPc = "loop"
    /\ webPc' = "loop"
    /\ UNCHANGED <<camera0, webCount, submittedDevice>>
    /\ UNCHANGED notCapture

\* server.py line 77: camera.read() delivers the device's next frame to the stream
WebRead ==
    /\ webPc = "loop"
    /\ camera0 < MaxCaptured
    /\ camera0' = camera0 + 1
    /\ webCount' = webCount + 1
    /\ UNCHANGED <<webPc, submittedDevice>>
    /\ UNCHANGED notCapture

\* server.py lines 78-79: the read fails and the generator ends
WebReadFail ==
    /\ webPc = "loop"
    /\ webPc' = "ended"
    /\ UNCHANGED <<camera0, webCount, submittedDevice>>
    /\ UNCHANGED notCapture

(***************************************************************************)
(* _process_frame_async                                                    *)
(***************************************************************************)
\* queue.Empty left uncaught: the thread ends
WorkerGetEmptyEnds ==
    /\ workerPc = "get"
    /\ frame_queue = <<>>
    /\ lastCall' = "empty"
    /\ workerPc' = "killed"
    /\ UNCHANGED <<frame_queue, api_error_count, last_activity_result, feedPc, frame_count,
                   workerFrame, feedEvent, submitted, accepted, dequeued, failRun, prevCount,
                   prevResult>>
    /\ UNCHANGED <<notCam, observed, completed>>

\* line 44 with an empty queue: get(timeout=1) raises queue.Empty, which the
\* outer except Exception catches; the loop goes on
WorkerGetEmpty ==
    /\ workerPc = "get"
    /\ frame_queue = <<>>
    /\ lastCall' = "empty"
    /\ UNCHANGED <<camVars, feedEvent, submitted, accepted, dequeued, failRun, prevCount, prevResult>>
    /\ UNCHANGED <<notCam, observed, completed>>

\* a worker that takes the next frame without waiting for the call it has made
WorkerGetWhilePosting ==
    /\ frame_queue # <<>>
    /\ workerFrame' = Head(frame_queue)
    /\ frame_queue' = Tail(frame_queue)
    /\ dequeued' = Append(dequeued, Head(frame_queue))
    /\ workerPc' = "post"
    /\ UNCHANGED <<api_error_count, last_activity_result, feedPc, frame_count,
                   feedEvent, submitted, accepted, lastCall, failRun, prevCount, prevResult>>
    /\ UNCHANGED <<notCam, observed, completed>>

WorkerGetUnlessOpen ==
    /\ workerPc = "get"
    /\ frame_queue # <<>>
    /\ api_error_count < API_ERROR_THRESHOLD
    /\ workerFrame' = Head(frame_queue)
    /\ frame_queue' = Tail(frame_queue)
    /\ dequeued' = Append(dequeued, Head(frame_queue))
    /\ workerPc' = "post"
    /\ UNCHANGED <<api_error_count, last_activity_result, feedPc, frame_count,
                   feedEvent, submitted, accepted, lastCall, failRun, prevCount, prevResult>>
    /\ UNCHANGED <<notCam, observed, completed>>

\* lines 44-50: a frame is dequeued and encoded
WorkerGet ==
    /\ workerPc = "get"
    /\ frame_queue # <<>>
    /\ workerFrame' = Head(frame_queue)
    /\ frame_queue' = Tail(frame_queue)
    /\ dequeued' = Append(dequeued, Head(frame_queue))
    /\ workerPc' = "post"
    /\ UNCHANGED <<api_error_count, last_activity_result, feedPc, frame_count,
                   feedEvent, submitted, accepted, lastCall, failRun, prevCount, prevResult>>
    /\ UNCHANGED <<notCam, observed, completed>>

\* lines 44-50 and 62-63: a frame is dequeued, encoding it raises (cv2.imencode
\* raises, or gives no buffer and buffer.tobytes() raises), the outer except
\* Exception catches it; no call is made for the frame
WorkerEncodeFail ==
    /\ workerPc = "get"
    /\ frame_queue # <<>>
    /\ frame_queue' = Tail(frame_queue)
    /\ dequeued' = Append(dequeued, Head(frame_queue))
    /\ completed' = completed + 1
    /\ lastCall' = "encodefail"
    /\ UNCHANGED <<api_error_count, last_activity_result, feedPc, frame_count, workerPc,
                   workerFrame, feedEvent, submitted, accepted, failRun, prevCount, prevResult>>
    /\ UNCHANGED <<notCam, observed>>

\* lines 52-63: requests.post returns or raises
WorkerPost ==
    /\ workerPc = "post"
    /\ \E o \in Outcomes :
         /\ CountAfter(api_error_count, o) <= MaxErrors
         /\ api_error_count' = CountAfter(api_error_count, o)
         /\ last_activity_result' = ResultAfter(last_activity_result, o)
         /\ lastCall' = CallKind(o)
         /\ failRun' = (IF o.raised THEN failRun + 1 ELSE 0)
    /\ prevCount' = api_error_count
    /\ prevResult' = last_activity_result
    /\ completed' = completed + 1
    /\ workerPc' = "get"
    /\ workerFrame' = NoFrame
    /\ observed' = IF statusPc = "idle" THEN observed
                   ELSE observed \cup {<<api_error_count', last_activity_result'>>}
    /\ UNCHANGED <<frame_queue, feedPc, frame_count, feedEvent, submitted, accepted, dequeued>>
    /\ UNCHANGED notCam

(***************************************************************************)
(* get_activity_status, called from a stream thread while the worker runs. *)
(* The call makes up to three reads of the shared fields, and the worker   *)
(* may complete iterations between them.                                   *)
(***************************************************************************)
StatusInit ==
    /\ statusPc = "idle"
    /\ statusActivity = "-"
    /\ statusResult = "none"
    /\ observed = {}

\* line 106: the call begins
StatusCall ==
    /\ statusPc = "idle"
    /\ statusPc' = "count"
    /\ observed' = {<<api_error_count, last_activity_result>>}
    /\ UNCHANGED <<statusActivity, statusResult>>
    /\ UNCHANGED notStatus

StatusReadCountResets ==
    /\ statusPc = "count"
    /\ IF api_error_count >= API_ERROR_THRESHOLD
       THEN /\ statusResult' = <<"API Unavailable", 0>>
            /\ statusPc' = "idle"
       ELSE /\ statusResult' = statusResult
            /\ statusPc' = "activity"
    /\ api_error_count' = 0
    /\ UNCHANGED <<statusActivity, observed>>
    /\ UNCHANGED <<mainPc, frame_queue, last_activity_result, feedPc, frame_count, workerPc,
                   workerFrame, camHist, completed, sensorAll, zoneAll, aiAll, streamsAll,
                   captureAll>>

\* lines 108-109: api_error_count is read and compared
StatusReadCount ==
    /\ statusPc = "count"
    /\ IF api_error_count >= API_ERROR_THRESHOLD
       THEN /\ statusResult' = <<"API Unavailable", 0>>
            /\ statusPc' = "idle"
       ELSE /\ statusResult' = statusResult
            /\ statusPc' = "activity"
    /\ UNCHANGED <<statusActivity, observed>>
    /\ UNCHANGED notStatus

\* line 110, self.last_activity_result['activity']
StatusReadActivity ==
    /\ statusPc = "activity"
    /\ statusActivity' = last_activity_result.activity
    /\ statusPc' = "probability"
    /\ UNCHANGED <<statusResult, observed>>
    /\ UNCHANGED notStatus

\* line 110, self.last_activity_result['activity_probability'], and the return
StatusReadProbability ==
    /\ statusPc = "probability"
    /\ statusResult' = <<statusActivity, last_activity_result.activity_probability>>
    /\ statusActivity' = "-"
    /\ statusPc' = "idle"
    /\ UNCHANGED observed
    /\ UNCHANGED notStatus

CamNext ==
    \/ FeedStart
    \/ FeedReadFail
    \/ FeedFrame
    \/ WorkerGetEmpty
    \/ WorkerGet
    \/ WorkerEncodeFail
    \/ WorkerPost

(***************************************************************************)
(* SensorManager                                                           *)
(***************************************************************************)
SENSOR_READ_INTERVAL == 20   \* settings.SENSOR_READ_INTERVAL = 2 s
MAX_RETRIES == 3             \* max_retries
RETRY_DELAY == 5             \* retry_delay = 0.5 s
READ_SLEEP == 1              \* time.sleep(0.1), lines 89 and 119

Epoch == 100         \* the wall clock when the process starts
MaxTicks == 50       \* ticks of wall-clock time explored
ReadTicks == 23      \* ticks of wall-clock time explored while get_readings is called
MaxStreamFrames == 4 \* frames the capture device of src/main.py delivers

\* what the DHT22 and the MQ-135 can deliver: (temperature, humidity) pairs and ppm values
DhtSamples == {[temperature |-> 21, humidity |-> 40], [temperature |-> 24, humidity |-> 55]}
PPMs == {30, 250}

InitialReadings ==
    [temperature |-> 0, humidity |-> 0, air_quality |-> "Unknown",
     air_quality_ppm |-> 0, last_read_time |-> 0]

\* the thresholds of _get_air_quality
QualityOf(ppm) ==
    IF ppm < 50 THEN "Excellent"
    ELSE IF ppm < 100 THEN "Good"
    ELSE IF ppm < 200 THEN "Moderate"
    ELSE IF ppm < 300 THEN "Poor"
    ELSE "Very Poor"

\* _get_air_quality: the label and the ppm of a sample, or the placeholder pair
\* when reading the channel raises
AirQuality(mq) ==
    IF mq.raised THEN <<"Unknown", 0>> ELSE <<QualityOf(mq.ppm), mq.ppm>>

\* One attempt's reads: the DHT22 properties raise, or return a value or None,
\* and the MQ-135 channel raises or gives a sample.
NoValue == -1
DhtReads ==
    {[raised |-> TRUE, temperature |-> NoValue, humidity |-> NoValue]}
    \cup {[raised |-> FALSE, temperature |-> d.temperature, humidity |-> d.humidity] : d \in DhtSamples}
    \cup {[raised |-> FALSE, temperature |-> NoValue, humidity |-> d.humidity] : d \in DhtSamples}
    \cup {[raised |-> FALSE, temperature |-> d.temperature, humidity |-> NoValue] : d \in DhtSamples}
    \cup {[raised |-> FALSE, temperature |-> NoValue, humidity |-> NoValue]}
MqReads == [raised : {TRUE}, ppm : {0}] \cup [raised : {FALSE}, ppm : PPMs]

\* line 93
HasValues(dht) == ~dht.raised /\ dht.humidity # NoValue /\ dht.temperature # NoValue

ReadingsAfterAttemptClearing(readings, dht, mq, t) ==
    IF HasValues(dht)
    THEN [temperature |-> dht.temperature, humidity |-> dht.humidity,
          air_quality |-> AirQuality(mq)[1], air_quality_ppm |-> AirQuality(mq)[2],
          last_read_time |-> t]
    ELSE [InitialReadings EXCEPT !.last_read_time = readings.last_read_time]

\* lines 90-102: last_readings after one attempt made at time t
ReadingsAfterAttempt(readings, dht, mq, t) ==
    IF HasValues(dht)
    THEN [temperature |-> dht.temperature, humidity |-> dht.humidity,
          air_quality |-> AirQuality(mq)[1], air_quality_ppm |-> AirQuality(mq)[2],
          last_read_time |-> t]
    ELSE readings

\* get_readings
ReadingsTuple(readings) ==
    <<readings.temperature, readings.humidity, readings.air_quality, readings.air_quality_ppm>>

get_readings == ReadingsTuple(last_readings)

SensorInit ==
    /\ last_readings = InitialReadings
    /\ sensorPc = "idle"
    /\ attempt = 0
    /\ now = Epoch
    /\ cycleReadings = InitialReadings
    /\ lastCycle = "none"
    /\ attemptsMade = 0
    /\ cycleStarts = <<>>
    /\ mqFailed = FALSE
    /\ readPc = 0
    /\ readPartial = <<>>
    /\ readingsResult = <<>>
    /\ readingsSeen = {}

\* lines 116-119, the interval has not passed: sleep 0.1 s
SensorWait ==
    /\ sensorPc = "idle"
    /\ now - last_readings.last_read_time < SENSOR_READ_INTERVAL
    /\ now + READ_SLEEP <= Epoch + MaxTicks
    /\ now' = now + READ_SLEEP
    /\ UNCHANGED <<last_readings, sensorPc, attempt, sensorHist, readerVars, readingsSeen>>
    /\ UNCHANGED notSensor

\* lines 116-118 and 84-87, the interval has passed: _read_sensors is entered
SensorStartCycle ==
    /\ sensorPc = "idle"
    /\ now - last_readings.last_read_time >= SENSOR_READ_INTERVAL
    /\ now < Epoch + MaxTicks
    /\ sensorPc' = "reading"
    /\ attempt' = 0
    /\ cycleReadings' = last_readings
    /\ attemptsMade' = 0
    /\ cycleStarts' = IF Len(cycleStarts) < 2 THEN Append(cycleStarts, now)
                      ELSE <<cycleStarts[2], now>>
    /\ UNCHANGED <<last_readings, now, lastCycle, mqFailed, readerVars, readingsSeen>>
    /\ UNCHANGED notSensor

\* the time one attempt takes: the sleep before the reads, the retry delay after
\* an exception unless it was the last attempt, and, when the attempt ends the
\* cycle, the sleep of line 119 that follows _read_sensors
AttemptTicks(dht, a) ==
    READ_SLEEP
    + (IF dht.raised /\ a < MAX_RETRIES - 1 THEN RETRY_DELAY ELSE 0)
    + (IF HasValues(dht) \/ a = MAX_RETRIES - 1 THEN READ_SLEEP ELSE 0)

\* lines 87-110: one pass of the for loop
SensorAttemptOnceMore ==
    /\ sensorPc = "reading"
    /\ \E dht \in DhtReads, mq \in MqReads :
         /\ now + AttemptTicks(dht, attempt) <= Epoch + MaxTicks
         /\ last_readings' = ReadingsAfterAttempt(last_readings, dht, mq, now + READ_SLEEP)
         /\ now' = now + AttemptTicks(dht, attempt)
         /\ attemptsMade' = attemptsMade + 1
         /\ mqFailed' = (HasValues(dht) /\ mq.raised)
         /\ IF HasValues(dht)
            THEN /\ sensorPc' = "idle"
                 /\ lastCycle' = "ok"
                 /\ attempt' = attempt
            ELSE IF attempt = MAX_RETRIES
            THEN /\ sensorPc' = "idle"
                 /\ lastCycle' = "failed"
                 /\ attempt' = attempt
            ELSE /\ sensorPc' = "reading"
                 /\ lastCycle' = lastCycle
                 /\ attempt' = attempt + 1
    /\ readingsSeen' = IF readPc = 0 THEN readingsSeen ELSE readingsSeen \cup {last_readings'}
    /\ UNCHANGED <<cycleReadings, cycleStarts, readerVars>>
    /\ UNCHANGED notSensor

SensorAttempt ==
    /\ sensorPc = "reading"
    /\ \E dht \in DhtReads, mq \in MqReads :
         /\ now + AttemptTicks(dht, attempt) <= Epoch + MaxTicks
         /\ last_readings' = ReadingsAfterAttempt(last_readings, dht, mq, now + READ_SLEEP)
         /\ now' = now + AttemptTicks(dht, attempt)
         /\ attemptsMade' = attemptsMade + 1
         /\ mqFailed' = (HasValues(dht) /\ mq.raised)
         /\ IF HasValues(dht)
            THEN /\ sensorPc' = "idle"
                 /\ lastCycle' = "ok"
                 /\ attempt' = attempt
            ELSE IF attempt = MAX_RETRIES - 1
            THEN /\ sensorPc' = "idle"
                 /\ lastCycle' = "failed"
                 /\ attempt' = attempt
            ELSE /\ sensorPc' = "reading"
                 /\ lastCycle' = lastCycle
                 /\ attempt' = attempt + 1
    /\ readingsSeen' = IF readPc = 0 THEN readingsSeen ELSE readingsSeen \cup {last_readings'}
    /\ UNCHANGED <<cycleReadings, cycleStarts, readerVars>>
    /\ UNCHANGED notSensor

(***************************************************************************)
(* get_readings, called from a server thread while the sensor thread runs. *)
(* The returned tuple is built from four subscripts of the shared dict,    *)
(* and the sensor thread may update the dict between them.                 *)
(***************************************************************************)
\* the keys get_readings subscripts, in the order of lines 132-135
ReadingFields == <<"temperature", "humidity", "air_quality", "air_quality_ppm">>

\* line 129: the call begins
ReadingsCall ==
    /\ readPc = 0
    /\ readPc' = 1
    /\ readPartial' = <<>>
    /\ readingsSeen' = {last_readings}
    /\ UNCHANGED readingsResult
    /\ UNCHANGED notReader

ReadingsReadWaits ==
    /\ readPc \in 1..4
    /\ sensorPc = "idle"
    /\ LET got == Append(readPartial, last_readings[ReadingFields[readPc]])
       IN  IF readPc < 4
           THEN /\ readPartial' = got
                /\ readPc' = readPc + 1
                /\ UNCHANGED readingsResult
           ELSE /\ readingsResult' = got
                /\ readPartial' = <<>>
                /\ readPc' = 0
    /\ UNCHANGED readingsSeen
    /\ UNCHANGED notReader

\* lines 132-135: the next field is read; after the fourth the tuple is returned
ReadingsRead ==
    /\ readPc \in 1..4
    /\ LET got == Append(readPartial, last_readings[ReadingFields[readPc]])
       IN  IF readPc < 4
           THEN /\ readPartial' = got
                /\ readPc' = readPc + 1
                /\ UNCHANGED readingsResult
           ELSE /\ readingsResult' = got
                /\ readPartial' = <<>>
                /\ readPc' = 0
    /\ UNCHANGED readingsSeen
    /\ UNCHANGED notReader

SensorNext ==
    \/ SensorWait
    \/ SensorStartCycle
    \/ SensorAttempt

(***************************************************************************)
(* main.py: detect_hamster_activity and generate_camera_frames             *)
(***************************************************************************)
MaxCounter == 6      \* no_movement_frames explored up to this value
RunWindow == 2       \* classified frames whose below-threshold flag is remembered

\* DEFAULT_CONFIG, and what POST /config may put in its place
DEFAULT_CONFIG ==
    [MOVEMENT_THRESHOLD |-> 1000, RESTING_THRESHOLD |-> 5, ACTIVITY_DETECTION_ENABLED |-> TRUE]

ALTERNATIVE_CONFIG ==
    [MOVEMENT_THRESHOLD |-> 500, RESTING_THRESHOLD |-> 3, ACTIVITY_DETECTION_ENABLED |-> TRUE]

Configs ==
    {DEFAULT_CONFIG, [DEFAULT_CONFIG EXCEPT !.ACTIVITY_DETECTION_ENABLED = FALSE],
     ALTERNATIVE_CONFIG}

\* A frame as detect_hamster_activity measures it: countNonZero of the final mask
\* in all (movement) and inside the wheel, food and water rectangles.  A zone is
\* part of the frame, so its count is at most the total.
Frames ==
    {f \in [movement : {0, 999, 1000, 1001}, wheel : {0, 500, 501},
            food : {0, 300, 301}, water : {0, 300, 301}] :
        f.wheel <= f.movement /\ f.food <= f.movement /\ f.water <= f.movement}

NoFrameYet == [movement |-> -1, wheel |-> -1, food |-> -1, water |-> -1]

DISABLED == "Activity detection disabled"

CounterAfterInclusive(cfg, counter, movement) ==
    IF movement <= cfg.MOVEMENT_THRESHOLD THEN counter + 1 ELSE 0

CounterAfterCapped(cfg, counter, movement) ==
    IF movement < cfg.MOVEMENT_THRESHOLD
    THEN (IF counter + 1 < cfg.RESTING_THRESHOLD THEN counter + 1 ELSE 0)
    ELSE 0

\* lines 128-132
CounterAfter(cfg, counter, movement) ==
    IF movement < cfg.MOVEMENT_THRESHOLD THEN counter + 1 ELSE 0

DecideZonesFirst(cfg, counter, f, prev) ==
    IF 2 * f.wheel > cfg.MOVEMENT_THRESHOLD THEN "Running on wheel"
    ELSE IF 10 * f.food > 3 * cfg.MOVEMENT_THRESHOLD THEN "Eating"
    ELSE IF 10 * f.water > 3 * cfg.MOVEMENT_THRESHOLD THEN "Drinking water"
    ELSE IF counter >= cfg.RESTING_THRESHOLD THEN "Resting"
    ELSE IF f.movement > cfg.MOVEMENT_THRESHOLD THEN "Exploring"
    ELSE prev

DecideElseExploring(cfg, counter, f, prev) ==
    IF counter >= cfg.RESTING_THRESHOLD THEN "Resting"
    ELSE IF 2 * f.wheel > cfg.MOVEMENT_THRESHOLD THEN "Running on wheel"
    ELSE IF 10 * f.food > 3 * cfg.MOVEMENT_THRESHOLD THEN "Eating"
    ELSE IF 10 * f.water > 3 * cfg.MOVEMENT_THRESHOLD THEN "Drinking water"
    ELSE "Exploring"

DecideByMagnitude(cfg, counter, f, prev) ==
    IF f.movement > cfg.MOVEMENT_THRESHOLD THEN "Exploring"
    ELSE IF counter >= cfg.RESTING_THRESHOLD THEN "Resting"
    ELSE IF 2 * f.wheel > cfg.MOVEMENT_THRESHOLD THEN "Running on wheel"
    ELSE IF 10 * f.food > 3 * cfg.MOVEMENT_THRESHOLD THEN "Eating"
    ELSE IF 10 * f.water > 3 * cfg.MOVEMENT_THRESHOLD THEN "Drinking water"
    ELSE prev

\* lines 134-146, with the counter already updated; x > T * 0.5 is 2x > T and
\* x > T * 0.3 is 10x > 3T for the integers compared here
Decide(cfg, counter, f, prev) ==
    IF counter >= cfg.RESTING_THRESHOLD THEN "Resting"
    ELSE IF 2 * f.wheel > cfg.MOVEMENT_THRESHOLD THEN "Running on wheel"
    ELSE IF 10 * f.food > 3 * cfg.MOVEMENT_THRESHOLD THEN "Eating"
    ELSE IF 10 * f.water > 3 * cfg.MOVEMENT_THRESHOLD THEN "Drinking water"
    ELSE IF f.movement > cfg.MOVEMENT_THRESHOLD THEN "Exploring"
    ELSE prev

\* line 96: frame differencing replaces the mask when background subtraction left
\* fewer than 100 pixels (sparse) and there is a previous frame
UsesDifference(sparse, pframe) == sparse /\ pframe # "None"

\* detect_hamster_activity(frame, bg_subtractor, prev_activity, no_movement_frames,
\* prev_frame) for a BGR camera frame: the triple it returns, or raised = TRUE when
\* cv2.absdiff is given the grayscale frame and a BGR previous frame
detect_hamster_activity(cfg, f, sparse, prev, counter, pframe) ==
    IF ~cfg.ACTIVITY_DETECTION_ENABLED
    THEN [raised |-> FALSE, activity |-> DISABLED, counter |-> counter, frame |-> "bgr"]
    ELSE IF UsesDifference(sparse, pframe) /\ pframe = "bgr"
    THEN [raised |-> TRUE, activity |-> prev, counter |-> counter, frame |-> pframe]
    ELSE [raised |-> FALSE,
          activity |-> Decide(cfg, CounterAfter(cfg, counter, f.movement), f, prev),
          counter |-> CounterAfter(cfg, counter, f.movement),
          frame |-> "gray"]

NoResult == [activity |-> "-", counter |-> -1, frame |-> "-"]

ZoneInit ==
    /\ callPc = 0
    /\ callFrame = NoFrameYet
    /\ callSparse = FALSE
    /\ callCounter = 0
    /\ callResult = NoResult
    /\ callSeen = {}
    /\ config = DEFAULT_CONFIG
    /\ streamPc = "running"
    /\ prev_activity = "Exploring"
    /\ no_movement_frames = 0
    /\ prev_frame = "None"
    /\ lastFrame = NoFrameYet
    /\ lastConfig = DEFAULT_CONFIG
    /\ lastLabel = "none"
    /\ zeroRun = 0
    /\ belowFlags = <<>>

\* the last n elements of a sequence (all of it when it is shorter)
KeepLast(seq, n) ==
    IF Len(seq) <= n THEN seq ELSE SubSeq(seq, Len(seq) - n + 1, Len(seq))

AllZero(f) == f.movement = 0 /\ f.wheel = 0 /\ f.food = 0 /\ f.water = 0

\* lines 227-236: one frame of the stream.  A frame on which background
\* subtraction left fewer than 100 pixels and that is not differenced has fewer
\* than 100 pixels in its final mask.
StreamFrame ==
    /\ streamPc = "running"
    /\ \E f \in Frames, sparse \in BOOLEAN :
         LET r == detect_hamster_activity(config, f, sparse, prev_activity,
                                          no_movement_frames, prev_frame)
         IN  /\ (sparse /\ ~UsesDifference(sparse, prev_frame)) => f.movement < 100
             /\ r.counter <= MaxCounter
             /\ lastFrame' = f
             /\ lastConfig' = config
             /\ IF r.raised
                THEN /\ streamPc' = "crashed"
                     /\ lastLabel' = "raised"
                     /\ zeroRun' = 0
                     /\ UNCHANGED <<prev_activity, no_movement_frames, prev_frame, belowFlags>>
                ELSE /\ streamPc' = "running"
                     /\ lastLabel' = r.activity
                     /\ prev_activity' = r.activity
                     /\ no_movement_frames' = r.counter
                     /\ prev_frame' = r.frame
                     /\ zeroRun' = IF config.ACTIVITY_DETECTION_ENABLED /\ AllZero(f)
                                   THEN zeroRun + 1 ELSE 0
                     /\ belowFlags' =
                            IF config.ACTIVITY_DETECTION_ENABLED
                            THEN KeepLast(Append(belowFlags,
                                                 f.movement < config.MOVEMENT_THRESHOLD),
                                          RunWindow)
                            ELSE belowFlags
    /\ UNCHANGED <<config, callVars, callSeen>>
    /\ UNCHANGED notZone

\* lines 228-230: camera.read() fails and the generator ends
StreamReadFail ==
    /\ streamPc = "running"
    /\ callPc = 0
    /\ streamPc' = "ended"
    /\ UNCHANGED <<config, prev_activity, no_movement_frames, prev_frame, zoneHist,
                   callVars, callSeen>>
    /\ UNCHANGED notZone

\* lines 274-282: POST /config replaces the global
HandleConfigPost ==
    /\ \E new \in Configs :
         /\ config' = new
         /\ callSeen' = IF callPc \in {0, 235} THEN callSeen ELSE callSeen \cup {new}
    /\ UNCHANGED <<streamPc, prev_activity, no_movement_frames, prev_frame, zoneHist, callVars>>
    /\ UNCHANGED notZone

(***************************************************************************)
(* detect_hamster_activity read by read.  Every config[...] in the body     *)
(* looks the global up anew, so a POST /config handled by another thread of *)
(* the server (app.run(threaded=True)) can replace it between two reads.    *)
(***************************************************************************)
\* the rule tested at a line: whether it fires under cfg, and its label
RuleFires(line, cfg, counter, f) ==
    CASE line = 135 -> counter >= cfg.RESTING_THRESHOLD
      [] line = 137 -> 2 * f.wheel > cfg.MOVEMENT_THRESHOLD
      [] line = 139 -> 10 * f.food > 3 * cfg.MOVEMENT_THRESHOLD
      [] line = 141 -> 10 * f.water > 3 * cfg.MOVEMENT_THRESHOLD
      [] line = 143 -> f.movement > cfg.MOVEMENT_THRESHOLD

RuleLabel(line) ==
    CASE line = 135 -> "Resting"
      [] line = 137 -> "Running on wheel"
      [] line = 139 -> "Eating"
      [] line = 141 -> "Drinking water"
      [] line = 143 -> "Exploring"

\* lines 228, 235 and 83-100: a frame is read, the call begins and reads
\* config['ACTIVITY_DETECTION_ENABLED']
CallBegin ==
    /\ streamPc = "running"
    /\ callPc = 0
    /\ \E f \in Frames, sparse \in BOOLEAN :
         /\ (sparse /\ ~UsesDifference(sparse, prev_frame)) => f.movement < 100
         /\ callFrame' = f
         /\ callSparse' = sparse
         /\ callSeen' = {config}
         /\ callCounter' = no_movement_frames
         /\ IF ~config.ACTIVITY_DETECTION_ENABLED
            THEN /\ callPc' = 235
                 /\ callResult' = [activity |-> DISABLED, counter |-> no_movement_frames,
                                   frame |-> "bgr"]
                 /\ streamPc' = streamPc
            ELSE IF UsesDifference(sparse, prev_frame) /\ prev_frame = "bgr"
            THEN /\ callPc' = 0
                 /\ callResult' = NoResult
                 /\ streamPc' = "crashed"
            ELSE /\ callPc' = 129
                 /\ callResult' = NoResult
                 /\ streamPc' = streamPc
    /\ UNCHANGED <<config, prev_activity, no_movement_frames, prev_frame, zoneHist>>
    /\ UNCHANGED notZone

\* lines 129-132: config['MOVEMENT_THRESHOLD'] is read for the counter
CallCount ==
    /\ callPc = 129
    /\ CounterAfter(config, callCounter, callFrame.movement) <= MaxCounter
    /\ callCounter' = CounterAfter(config, callCounter, callFrame.movement)
    /\ callPc' = 135
    /\ UNCHANGED <<zoneVars, zoneHist, callFrame, callSparse, callResult, callSeen>>
    /\ UNCHANGED notZone

\* lines 135-146: the rule of the line reads its threshold from config; the call
\* returns its label if it fires, goes on to the next rule if not, and returns
\* prev_activity after the last
CallRule ==
    /\ callPc \in {135, 137, 139, 141, 143}
    /\ IF RuleFires(callPc, config, callCounter, callFrame)
       THEN /\ callResult' = [activity |-> RuleLabel(callPc), counter |-> callCounter,
                              frame |-> "gray"]
            /\ callPc' = 235
       ELSE IF callPc = 143
       THEN /\ callResult' = [activity |-> prev_activity, counter |-> callCounter,
                              frame |-> "gray"]
            /\ callPc' = 235
       ELSE /\ callResult' = callResult
            /\ callPc' = callPc + 2
    /\ UNCHANGED <<zoneVars, zoneHist, callFrame, callSparse, callCounter, callSeen>>
    /\ UNCHANGED notZone

\* lines 235-236: the returned triple is assigned
CallReturn ==
    /\ callPc = 235
    /\ prev_activity' = callResult.activity
    /\ no_movement_frames' = callResult.counter
    /\ prev_frame' = callResult.frame
    /\ callPc' = 0
    /\ callFrame' = NoFrameYet
    /\ callSparse' = FALSE
    /\ callCounter' = 0
    /\ callResult' = NoResult
    /\ callSeen' = {}
    /\ UNCHANGED <<config, streamPc, zoneHist>>
    /\ UNCHANGED notZone

ConfigNext ==
    \/ CallBegin
    \/ CallCount
    \/ CallRule
    \/ CallReturn
    \/ StreamReadFail
    \/ HandleConfigPost

ZoneNext ==
    \/ StreamFrame
    \/ StreamReadFail
    \/ HandleConfigPost

(***************************************************************************)
(* HamsterActivityDetector                                                 *)
(***************************************************************************)
MAX_HISTORY == 30            \* self.max_history
MOTION_HISTORY_SIZE == 10    \* self.motion_history_size
MOTION_THRESHOLD == 500      \* self.motion_threshold

MaxCalls == 33       \* calls of detect_activity explored
FreeCalls == 2       \* the first FreeCalls frames are arbitrary, the later ones follow Script

\* 1.0, and a confidence or threshold given in thousandths
One == 1000 * 2520
Milli(m) == m * 2520

\* self.activity_states.keys(), in the dict's order
ActivityLabels == <<"running", "eating", "drinking", "sleeping", "exploring">>
LabelSet == {ActivityLabels[i] : i \in 1..Len(ActivityLabels)}

\* self.activity_thresholds
EXPLORING_THRESHOLD == Milli(400)
SLEEPING_THRESHOLD == Milli(300)

\* What a frame is to the detector: the (conf, cls) pairs YOLO reports, in order,
\* and the number of foreground pixels left by background subtraction.
DetectionLists ==
    << <<>>,
       <<[conf |-> Milli(900), cls |-> 0]>>,
       <<[conf |-> Milli(800), cls |-> 1]>>,
       <<[conf |-> Milli(250), cls |-> 2]>>,
       <<[conf |-> Milli(900), cls |-> 2], [conf |-> Milli(350), cls |-> 2]>>,
       <<[conf |-> Milli(700), cls |-> 4], [conf |-> Milli(600), cls |-> 0]>> >>
MotionAreas == <<0, 100, 600>>

AIFrames ==
    [dets : {DetectionLists[i] : i \in 1..Len(DetectionLists)},
     area : {MotionAreas[i] : i \in 1..Len(MotionAreas)}]

\* the frame of call n (from 0) once the arbitrary frames are over: a cycle through
\* every pair of a detection list and a motion area
Script(n) ==
    [dets |-> DetectionLists[(n % Len(DetectionLists)) + 1],
     area |-> MotionAreas[((n + (n \div Len(DetectionLists))) % Len(MotionAreas)) + 1]]

RECURSIVE SumSeq(_)
SumSeq(q) == IF q = <<>> THEN 0 ELSE Head(q) + SumSeq(Tail(q))

\* pop() in place of pop(0): the entry just appended is the one removed
AppendDroppingNewest(h, x, cap) ==
    IF Len(h) + 1 > cap THEN h ELSE Append(h, x)

\* append and pop(0) beyond the capacity (lines 88-90 and 156-158)
AppendBounded(h, x, cap) ==
    IF Len(h) + 1 > cap THEN Tail(Append(h, x)) ELSE Append(h, x)

\* lines 84-85: min(1.0, motion_area / self.motion_threshold)
MotionIntensity(area) ==
    IF area >= MOTION_THRESHOLD THEN One ELSE (area * One) \div MOTION_THRESHOLD

\* line 93: np.mean(self.motion_history)
Mean(q) == SumSeq(q) \div Len(q)

\* lines 118-134: the scores after the detections, the later detection of a class
\* replacing the earlier one
RECURSIVE ApplyDetections(_, _)
ApplyDetections(probs, dets) ==
    IF dets = <<>> THEN probs
    ELSE LET d == Head(dets)
             p == CASE d.cls = 0 -> [probs EXCEPT !.eating = d.conf]
                    [] d.cls = 1 -> [probs EXCEPT !.running = d.conf]
                    [] d.cls = 2 -> [probs EXCEPT !.drinking = d.conf]
                    [] OTHER -> probs
         IN  ApplyDetections(p, Tail(dets))

\* create_dataset_yaml: the class names of the training dataset, by class index
DatasetNames ==
    [cls \in 0..4 |-> CASE cls = 0 -> "hamster"
                       [] cls = 1 -> "wheel"
                       [] cls = 2 -> "food"
                       [] cls = 3 -> "water"
                       [] cls = 4 -> "sleeping_area"]

ZeroProbs == [running |-> 0, eating |-> 0, drinking |-> 0, sleeping |-> 0, exploring |-> 0]

\* the exploring branch taken on motion alone, whatever the detections scored
WithMotionAlone(probs, motion) ==
    IF motion > EXPLORING_THRESHOLD
    THEN [probs EXCEPT !.exploring = motion, !.sleeping = 0]
    ELSE IF motion < SLEEPING_THRESHOLD
    THEN [probs EXCEPT !.sleeping = One - motion]
    ELSE [probs EXCEPT !.sleeping = IF One - motion > 0 THEN One - motion ELSE 0]

\* lines 139-153
WithMotion(probs, motion) ==
    LET specific == \E a \in {"running", "eating", "drinking"} : probs[a] > Milli(300)
    IN  IF motion > EXPLORING_THRESHOLD /\ ~specific
        THEN [probs EXCEPT !.exploring = motion, !.sleeping = 0]
        ELSE IF motion < SLEEPING_THRESHOLD
        THEN [probs EXCEPT !.sleeping = One - motion]
        ELSE [probs EXCEPT !.sleeping = IF One - motion > 0 THEN One - motion ELSE 0]

\* line 161: max over the dict's items by value; the first of equal maxima wins
MostLikely(probs) ==
    LET best == CHOOSE i \in 1..Len(ActivityLabels) :
                    /\ \A j \in 1..Len(ActivityLabels) :
                          probs[ActivityLabels[j]] <= probs[ActivityLabels[i]]
                    /\ \A j \in 1..(i - 1) :
                          probs[ActivityLabels[j]] < probs[ActivityLabels[i]]
    IN  ActivityLabels[best]

PatternOverCapacity(h) ==
    IF h = <<>> THEN [a \in LabelSet |-> [num |-> 0, den |-> 1]]
    ELSE [a \in LabelSet |->
            [num |-> SumSeq([i \in 1..Len(h) |-> h[i][a]]), den |-> MAX_HISTORY]]

\* get_activity_pattern: for each label the mean score over the history, as the
\* fraction num / den (0 over 1 for the empty history)
Pattern(h) ==
    IF h = <<>> THEN [a \in LabelSet |-> [num |-> 0, den |-> 1]]
    ELSE [a \in LabelSet |->
            [num |-> SumSeq([i \in 1..Len(h) |-> h[i][a]]), den |-> Len(h)]]

get_activity_pattern == Pattern(activity_history)

AIInit ==
    /\ activity_history = <<>>
    /\ motion_history = <<>>
    /\ allResults = <<>>
    /\ lastActivity = "none"

\* detect_activity(frame)
DetectActivity ==
    /\ Len(allResults) < MaxCalls
    /\ \E f \in AIFrames :
         /\ Len(allResults) >= FreeCalls => f = Script(Len(allResults))
         /\ LET mh == AppendBounded(motion_history, MotionIntensity(f.area), MOTION_HISTORY_SIZE)
                probs == WithMotion(ApplyDetections(ZeroProbs, f.dets), Mean(mh))
            IN  /\ motion_history' = mh
                /\ activity_history' = AppendBounded(activity_history, probs, MAX_HISTORY)
                /\ allResults' = Append(allResults, probs)
                /\ lastActivity' = MostLikely(probs)
    /\ UNCHANGED notAI

AINext == DetectActivity

(***************************************************************************)
(* Specifications: one per component, each from the state after            *)
(* construction.                                                           *)
(***************************************************************************)
\* src/src/main.py, lines 8-18: the managers are built and the server runs
(***************************************************************************)
(* The /camera1 route of src/main.py.  The server is threaded, so every    *)
(* connected client runs its own generate_camera_frames loop in its own    *)
(* thread; camera1_feed hands each of them the module-level capture device *)
(* and background subtractor.                                              *)
(***************************************************************************)
Clients == {1, 2}
Luminances == {0, 49, 50, 200}     \* mean luminance of a frame, of 0..255
DIFF_CUTOFF == 25                  \* line 100: threshold of the frame difference
KERNEL_SIZE == 3                   \* line 103: side of the structuring element

\* lines 100-105: the cutoff and kernel a detection call uses for a frame of the
\* given mean luminance (the code never measures the luminance)
MaskParameters(luminance) == [cutoff |-> DIFF_CUTOFF, kernel |-> KERNEL_SIZE]

StreamsInit ==
    /\ genPc = [c \in Clients |-> "none"]
    /\ genFrame = [c \in Clients |-> <<>>]
    /\ genCamera = [c \in Clients |-> "None"]
    /\ genSubtractor = [c \in Clients |-> "None"]
    /\ camera1 = 0
    /\ bg_subtractor1 = <<>>
    /\ maskParams = <<>>
    /\ genPrev = [c \in Clients |-> <<>>]
    /\ genLast = [c \in Clients |-> 0]
    /\ maskSource = <<>>

\* lines 262-266: GET /camera1 starts a generator on the global objects
camera1_feed(c) ==
    /\ genPc[c] = "none"
    /\ genPc' = [genPc EXCEPT ![c] = "read"]
    /\ genCamera' = [genCamera EXCEPT ![c] = "camera1"]
    /\ genSubtractor' = [genSubtractor EXCEPT ![c] = "bg_subtractor1"]
    /\ UNCHANGED <<genFrame, genPrev, camera1, bg_subtractor1, genHist>>
    /\ UNCHANGED notStreams

\* line 227: camera.read() delivers the device's next frame to this client
GenRead(c) ==
    /\ genPc[c] = "read"
    /\ camera1 < MaxStreamFrames
    /\ \E lum \in Luminances :
         genFrame' = [genFrame EXCEPT ![c] = <<camera1 + 1, lum>>]
    /\ camera1' = camera1 + 1
    /\ genPc' = [genPc EXCEPT ![c] = "detect"]
    /\ UNCHANGED <<genCamera, genSubtractor, genPrev, bg_subtractor1, genHist>>
    /\ UNCHANGED notStreams

\* lines 228-229: the read fails and the generator ends
GenReadFail(c) ==
    /\ genPc[c] = "read"
    /\ genPc' = [genPc EXCEPT ![c] = "ended"]
    /\ UNCHANGED <<genFrame, genCamera, genSubtractor, genPrev, camera1, bg_subtractor1,
                   genHist>>
    /\ UNCHANGED notStreams

\* where the mask of a call comes from (lines 83-100): "disabled" when the call
\* returns at line 84, "difference" when frame differencing replaces the mask of
\* the background model, "raised" when cv2.absdiff is given the grayscale frame
\* and a colour prev_frame, else "subtraction"
MaskSource(cfg, sparse, prev) ==
    IF ~cfg.ACTIVITY_DETECTION_ENABLED THEN "disabled"
    ELSE IF sparse /\ prev # <<>>
         THEN (IF prev[2] = "bgr" THEN "raised" ELSE "difference")
         ELSE "subtraction"

\* line 234 (lines 83-105 of detect_hamster_activity) and line 235: unless
\* detection is disabled the frame is applied to the background model, the mask
\* is taken from it or from the difference to prev_frame, thresholded and
\* denoised; the frame returned becomes prev_frame.  An exception ends the
\* generator.
GenDetect(c) ==
    /\ genPc[c] = "detect"
    /\ \E sparse \in BOOLEAN :
         LET number == genFrame[c][1]
             source == MaskSource(config, sparse, genPrev[c])
         IN  /\ maskSource' = [client |-> c, frame |-> number, sparse |-> sparse,
                               prev |-> genPrev[c], preceding |-> genLast[c],
                               source |-> source]
             /\ bg_subtractor1' = IF source = "disabled" THEN bg_subtractor1
                                  ELSE Append(bg_subtractor1, <<c, number>>)
             /\ maskParams' = IF source \in {"disabled", "raised"} THEN maskParams
                              ELSE <<genFrame[c][2], MaskParameters(genFrame[c][2])>>
             /\ genPrev' = CASE source = "disabled" -> [genPrev EXCEPT ![c] = <<number, "bgr">>]
                             [] source = "raised" -> genPrev
                             [] OTHER -> [genPrev EXCEPT ![c] = <<number, "gray">>]
             /\ genPc' = [genPc EXCEPT ![c] = IF source = "raised" THEN "crashed" ELSE "read"]
             /\ genLast' = [genLast EXCEPT ![c] = number]
    /\ genFrame' = [genFrame EXCEPT ![c] = <<>>]
    /\ UNCHANGED <<genCamera, genSubtractor, camera1>>
    /\ UNCHANGED notStreams

\* the streams, with POST /config switching detection off and on
StreamsNext ==
    \/ \E c \in Clients :
          \/ camera1_feed(c)
          \/ GenRead(c)
          \/ GenReadFail(c)
          \/ GenDetect(c)
    \/ HandleConfigPost /\ config'.MOVEMENT_THRESHOLD = config.MOVEMENT_THRESHOLD

MainInit == mainPc = "serving"

\* lines 20-27: Ctrl-C ends server.run(); the finally block releases the cameras.
\* No thread is told anything: there is no stop flag, event or sentinel.
MainInterrupt ==
    /\ mainPc = "serving"
    /\ mainPc' = "cleanup"
    /\ UNCHANGED <<camAll, sensorAll, zoneAll, aiAll, streamsAll, captureAll>>

\* main returns and the interpreter exits: the three threads are daemon threads
\* (daemon=True) and are stopped wherever they are
MainExit ==
    /\ mainPc = "cleanup"
    /\ mainPc' = "exited"
    /\ feedPc' = "exited"
    /\ workerPc' = "killed"
    /\ sensorPc' = "killed"
    /\ UNCHANGED <<frame_queue, api_error_count, last_activity_result, frame_count, workerFrame,
                   camHist, completed, statusVars, observed>>
    /\ UNCHANGED <<last_readings, attempt, now, sensorHist, readerVars, readingsSeen>>
    /\ UNCHANGED <<zoneAll, aiAll, streamsAll, captureAll>>

Init ==
    /\ MainInit /\ CamInit /\ StatusInit /\ SensorInit /\ ZoneInit /\ AIInit /\ StreamsInit
    /\ CaptureInit

SpecCam == Init /\ [][CamNext]_vars

\* the camera pipeline over its first StatusFrames frames, with a caller of
\* get_activity_status
StatusNext ==
    \/ FeedStart
    \/ FeedReadFail
    \/ FeedFrame /\ frame_count < StatusFrames
    \/ WorkerGetEmpty
    \/ WorkerGet
    \/ WorkerEncodeFail
    \/ WorkerPost
    \/ StatusCall
    \/ StatusReadCount
    \/ StatusReadActivity
    \/ StatusReadProbability

SpecStatus == Init /\ [][StatusNext]_vars

\* the camera pipeline over its first HandlerFrames frames, with the calls the
\* stream and /status handlers make: get_activity_status and get_readings
HandlersNext ==
    \/ FeedStart
    \/ FeedReadFail
    \/ FeedFrame /\ frame_count < HandlerFrames
    \/ WorkerGetEmpty
    \/ WorkerGet
    \/ WorkerEncodeFail
    \/ WorkerPost
    \/ StatusCall
    \/ StatusReadCount
    \/ StatusReadActivity
    \/ StatusReadProbability
    \/ ReadingsCall
    \/ ReadingsRead

SpecHandlers == Init /\ [][HandlersNext]_vars

\* the three loops, the feed loop up to the first frame it submits and the
\* sensor loop up to the end of the first attempt of its first read cycle, with
\* a handler thread that calls get_readings and get_activity_status
\* one after the other (server.py lines 82-83 and 172-175)
AccessorsNext ==
    \/ FeedStart
    \/ FeedReadFail
    \/ FeedFrame /\ frame_count < FRAME_SKIP
    \/ WorkerGetEmpty
    \/ WorkerGet
    \/ WorkerEncodeFail
    \/ WorkerPost
    \/ SensorStartCycle /\ now = Epoch
    \/ SensorAttempt /\ now = Epoch
    \/ StatusCall /\ readPc = 0
    \/ StatusReadCount
    \/ StatusReadActivity
    \/ StatusReadProbability
    \/ ReadingsCall /\ statusPc = "idle"
    \/ ReadingsRead

SpecAccessors == Init /\ [][AccessorsNext]_vars

\* the three background loops of src/main.py side by side: the camera-0 feed
\* thread, the dispatch worker and the sensor thread, over the first
\* PipelineFrames frames and PipelineTicks ticks
PipelineNext ==
    \/ FeedStart
    \/ FeedReadFail
    \/ FeedFrame /\ frame_count < PipelineFrames
    \/ WorkerGetEmpty
    \/ WorkerGet
    \/ WorkerEncodeFail
    \/ WorkerPost
    \/ SensorWait /\ now < Epoch + PipelineTicks
    \/ SensorStartCycle /\ now < Epoch + PipelineTicks
    \/ SensorAttempt /\ now < Epoch + PipelineTicks

SpecPipeline == Init /\ [][PipelineNext]_vars

\* the three loops and the shutdown of the process
ShutdownNext ==
    \/ PipelineNext
    \/ MainInterrupt
    \/ MainExit

SpecShutdown == Init /\ [][ShutdownNext]_vars

SpecSensor == Init /\ [][SensorNext]_vars

\* the sensor thread over its first ReadTicks ticks, with a caller of get_readings
ReadingsNext ==
    \/ SensorWait /\ now < Epoch + ReadTicks
    \/ SensorStartCycle /\ now < Epoch + ReadTicks
    \/ SensorAttempt /\ now < Epoch + ReadTicks
    \/ ReadingsCall
    \/ ReadingsRead

SpecReadings == Init /\ [][ReadingsNext]_vars

SpecStreams == Init /\ [][StreamsNext]_vars

\* the feed loop and the worker while the primary camera is streamed, over the
\* first MaxCaptured frames of the device
CaptureNext ==
    \/ FeedStart
    \/ FeedReadFail
    \/ FeedFrame /\ camera0 < MaxCaptured
    \/ WorkerGetEmpty
    \/ WorkerGet
    \/ WorkerEncodeFail
    \/ WorkerPost
    \/ camera_feed
    \/ WebRead
    \/ WebReadFail

SpecCapture == Init /\ [][CaptureNext]_vars

SpecZone == Init /\ [][ZoneNext]_vars

SpecAI == Init /\ [][AINext]_vars

\* the stream with POST /config arriving between any two reads of config
SpecConfig == Init /\ [][ConfigNext]_vars

(***************************************************************************)
(* Claims about the camera pipeline.                                       *)
(***************************************************************************)
Unavailable == <<"API Unavailable", 0>>

Range(s) == {s[i] : i \in 1..Len(s)}

\* C1: three consecutive raising remote calls (timeouts, transport errors) make
\* get_activity_status report ("API Unavailable", 0.0), every further one still
\* does, and one successful call (HTTP 200 with a JSON object) resets
\* api_error_count to 0, after which the status is not Unavailable.
C1_BreakerOpensAndResets ==
    /\ failRun >= API_ERROR_THRESHOLD => get_activity_status = Unavailable
    /\ lastCall \in {"result", "partial", "nofields"} =>
          /\ api_error_count = 0
          /\ get_activity_status # Unavailable
          /\ get_activity_status[1] # "API Unavailable"

\* a success closed a breaker that more than three failures had opened
C1_Witness ==
    /\ lastCall = "result"
    /\ prevCount > API_ERROR_THRESHOLD
    /\ api_error_count = 0

\* the queue's bound, its order, and the feed loop's next step being possible
C2_QueueBounded ==
    /\ Len(frame_queue) \in 0..QUEUE_MAXSIZE
    /\ accepted = dequeued \o frame_queue
    /\ (feedPc = "loop" /\ frame_count < MaxFrames) => ENABLED FeedFrame

\* a step that offers a frame to a full queue
C2_DropOnFull ==
    (/\ frame_count' # frame_count
     /\ frame_count % FRAME_SKIP = 0
     /\ Len(frame_queue) = QUEUE_MAXSIZE)
    => /\ frame_queue' = frame_queue
       /\ accepted' = accepted
       /\ frame_count' = frame_count + 1
       /\ feedPc' = "loop"

\* C2: the queue holds 0..10 frames; a frame offered to a full queue is
\* discarded, the queue is unchanged and the feed loop has gone on to its next
\* capture; the feed loop can always take its next step, whatever the worker
\* does; frames leave the queue in the order in which they were accepted.
C2_BoundedNonBlockingFifo == []C2_QueueBounded /\ [][C2_DropOnFull]_vars

\* a frame was dropped on a full queue, and a frame accepted after it has been dequeued
C2_Witness ==
    /\ \E f \in submitted : f \notin Range(accepted)
    /\ Len(dequeued) > QUEUE_MAXSIZE

\* C3: the k-th successfully captured frame is offered to the queue iff
\* k mod FRAME_SKIP = 0, whatever the queue holds; so of every 30 consecutive
\* captured frames exactly 10 are offered.
C3_EveryThirdFrame ==
    /\ submitted = {k \in 0..(frame_count - 1) : k % FRAME_SKIP = 0}
    /\ \A s \in 0..(frame_count - 30) :
          Cardinality({k \in submitted : s <= k /\ k < s + 30}) = 10

\* 31 frames captured, the last submission dropped on a full queue
C3_Witness ==
    /\ frame_count >= 31
    /\ feedEvent = "dropped"

C10_BadResponseCountsAsFailure ==
    lastCall \in {"non2xx", "unparseable", "nondict", "nofields", "partial"} =>
        /\ api_error_count = prevCount + 1
        /\ last_activity_result = prevResult

\* the calls in flight: frames dequeued whose call has not completed
InFlight == Len(dequeued) - completed

\* at most one call is in flight, it is the call for the frame dequeued last, and
\* frames are dequeued in the order of their capture
C12_OneInFlight ==
    /\ InFlight \in {0, 1}
    /\ (InFlight = 1) <=> (workerPc = "post")
    /\ workerPc = "post" => workerFrame = dequeued[Len(dequeued)]
    /\ \A i, j \in 1..Len(dequeued) : i < j => dequeued[i] < dequeued[j]

\* a step that writes a result to the slot writes the result of the frame dequeued
\* last, which is newer than every frame dequeued (and so written) before it
C12_WriteIsForNewest ==
    (completed' = completed + 1 /\ lastCall' \in {"result", "partial", "nofields"})
    => /\ workerFrame = dequeued[Len(dequeued)]
       /\ \A i \in 1..(Len(dequeued) - 1) : dequeued[i] < workerFrame
       /\ dequeued' = dequeued

\* C12: at most one remote call is in flight at any time, and results are
\* written to the last-result slot in the order in which their frames were
\* enqueued: a write is always for the newest frame dequeued so far.
C12_SequentialInOrder == []C12_OneInFlight /\ [][C12_WriteIsForNewest]_vars

\* a call is in flight while further frames wait in the queue, after results of
\* earlier frames have been written
C12_Witness ==
    /\ workerPc = "post"
    /\ Len(frame_queue) >= 2
    /\ completed >= 2
    /\ lastCall = "result"

\* the failures the three loops meet
WorkerFailures == {"raised", "unparseable", "non2xx", "nondict", "empty", "encodefail"}

\* C13: no failure ends a loop.  After a failed camera read the feed loop is
\* still in its loop and can make its next read; after a remote-call failure, an
\* empty-queue timeout or an encoding error the worker is at its get or in its
\* next call and can take its next step; after a failed attempt or a failed read
\* cycle the sensor loop is idle or reading and (within the time explored) can
\* take its next step.
C13_NoFailureEndsALoop ==
    /\ feedEvent = "readfail" =>
          /\ feedPc = "loop"
          /\ ENABLED (FeedFrame \/ FeedReadFail)
    /\ lastCall \in WorkerFailures =>
          /\ workerPc \in {"get", "post"}
          /\ ENABLED (WorkerGetEmpty \/ WorkerGet \/ WorkerEncodeFail \/ WorkerPost)
    /\ (lastCycle = "failed" \/ attemptsMade > 0) =>
          /\ sensorPc \in {"idle", "reading"}
          /\ now + READ_SLEEP + RETRY_DELAY <= Epoch + MaxTicks => ENABLED SensorNext

\* a camera read has just failed after frames were captured, and after a failed
\* remote call and a failed sensor cycle the worker is in its next call and the
\* sensor loop is in its next cycle
C13_Witness ==
    /\ feedEvent = "readfail" /\ frame_count > 1
    /\ lastCall \in WorkerFailures /\ workerPc = "post" /\ completed > 0
    /\ lastCycle = "failed" /\ sensorPc = "reading"

\* a loop begins a unit of work: the feed loop captures a frame, the worker
\* dequeues one, the sensor loop enters a read cycle
UnitBegins ==
    \/ frame_count' # frame_count
    \/ Len(dequeued') > Len(dequeued)
    \/ (sensorPc = "idle" /\ sensorPc' = "reading")

\* a loop ends in the middle of a unit of work: the worker in its remote call, or
\* the sensor loop in its read cycle
EndsMidUnit ==
    \/ (workerPc = "post" /\ workerPc' = "killed")
    \/ (sensorPc = "reading" /\ sensorPc' = "killed")

C16_AfterShutdown == (mainPc # "serving") => (~UnitBegins /\ ~EndsMidUnit)

\* C16: once shutdown is signalled each loop finishes the unit of work it is in
\* and ends: no loop begins a further unit (a worker waiting in dequeue takes no
\* further frame), and no loop is ended in the middle of a unit.
C16_ShutdownEndsLoopsAtUnitEnd == [][C16_AfterShutdown]_vars

\* C17 as stated: when camera.read() reports ok = false the feed loop of camera 0
\* has terminated, so that no further frame is read or enqueued by it.
C17_ReadFailEndsFeedLoop ==
    feedEvent = "readfail" => feedPc = "exited"

\* C17 amended: when camera.read() reports ok = false the feed loop of camera 0
\* does not terminate: it is still in its loop, and both a further failed read
\* and (within the frames explored) a further captured frame can follow.
C17_ReadFailKeepsFeedLoop ==
    feedEvent = "readfail" =>
        /\ feedPc = "loop"
        /\ ENABLED FeedReadFail
        /\ frame_count < MaxFrames => ENABLED FeedFrame

\* a read has failed with frames captured before it and the next frame due to be
\* offered to the queue
C17_Witness ==
    /\ feedEvent = "readfail"
    /\ feedPc = "loop"
    /\ frame_count > FRAME_SKIP
    /\ Sampled(frame_count)

\* the step of a failed read changes nothing but the record of the event
C18_FailedReadStep ==
    (feedEvent # "readfail" /\ feedEvent' = "readfail")
    => /\ frame_count' = frame_count
       /\ frame_queue' = frame_queue
       /\ submitted' = submitted
       /\ accepted' = accepted
       /\ api_error_count' = api_error_count
       /\ last_activity_result' = last_activity_result
       /\ get_activity_status' = get_activity_status
       /\ feedPc' = "loop"

\* after a failed read the next read can be made, and the frame it captures gets
\* the number the failed read would have had
C18_NextReadFollows ==
    feedEvent = "readfail" =>
        /\ feedPc = "loop"
        /\ ENABLED (FeedFrame \/ FeedReadFail)
        /\ submitted = {k \in 0..(frame_count - 1) : Sampled(k)}

\* C18: a failed camera read in the feed loop skips exactly that frame: nothing
\* is enqueued for it, frame_count is not advanced, the queue and the breaker
\* state (api_error_count, the last result, the reported status) are unchanged,
\* and the loop continues with its next read.
C18_FailedReadSkipsOneFrame == []C18_NextReadFollows /\ [][C18_FailedReadStep]_vars

\* a read failed while frames were queued and the breaker was open
C18_Witness ==
    /\ feedEvent = "readfail"
    /\ Len(frame_queue) > 1
    /\ api_error_count >= API_ERROR_THRESHOLD
    /\ frame_count % FRAME_SKIP = 1

\* the keys a 200 response body of each kind carries
BodyKeys(b) ==
    CASE b.kind = "result" -> {"activity", "activity_probability"}
      [] b.kind = "partial" -> {"activity"}
      [] OTHER -> {}

\* the slot holds exactly what the body carries: every key of the slot is a key
\* of the body, with the body's value
SlotIsVerbatim(slot, b) ==
    \A k \in DOMAIN slot : k \in BodyKeys(b) /\ slot[k] = b[k]

\* C22: a call that succeeds (status 200, a JSON object) leaves in the slot the
\* response just received and nothing else: activity and activity_probability
\* are those of the response, no value of an earlier result remains.
C22_SlotIsResponseVerbatim ==
    [][(completed' = completed + 1 /\ lastCall' \in {"result", "partial", "nofields"})
       => \E b \in Bodies : /\ b.kind = lastCall'
                            /\ SlotIsVerbatim(last_activity_result', b)]_vars

\* the dispatch worker's call returns or raises (lines 52-59)
WorkerCallEnds == workerPc = "post" /\ workerPc' = "get"

\* a step of the feed loop, of get_activity_status or of get_readings
ReaderStep ==
    \/ feedPc' # feedPc \/ frame_count' # frame_count \/ feedEvent' # feedEvent
    \/ statusPc' # statusPc
    \/ readPc' # readPc

\* C30: api_error_count and last_activity_result are changed only by the
\* dispatch worker: every step of the feed loop, of get_activity_status and of
\* the handlers' other reads leaves both as they are.
C30_OnlyWorkerWrites ==
    [][/\ (api_error_count' # api_error_count \/ last_activity_result' # last_activity_result)
            => WorkerCallEnds
       /\ ReaderStep =>
            UNCHANGED <<api_error_count, last_activity_result>>]_vars

\* the worker has changed both, frames were fed and both kinds of read were made
C30_Witness ==
    /\ prevCount > 0 /\ api_error_count = 0
    /\ last_activity_result # prevResult
    /\ frame_count > 1
    /\ statusResult # "none"
    /\ Len(readingsResult) = 4

\* whatever the loops are doing, a call of an accessor can begin and a call in
\* progress can take its next step
C31_NeverBlocked ==
    /\ statusPc = "idle" => ENABLED StatusCall
    /\ statusPc = "count" => ENABLED StatusReadCount
    /\ statusPc = "activity" => ENABLED StatusReadActivity
    /\ statusPc = "probability" => ENABLED StatusReadProbability
    /\ readPc = 0 => ENABLED ReadingsCall
    /\ readPc \in 1..4 => ENABLED ReadingsRead

\* a step of get_activity_status or of get_readings (get_status) leaves the
\* queue, the counter, the slot and the last reading as they are
C31_AccessorStep ==
    (statusPc' # statusPc \/ readPc' # readPc) =>
        UNCHANGED <<frame_queue, api_error_count, last_activity_result, last_readings>>

\* C31: get_activity_status, get_readings and get_status never wait for the
\* worker, the feed loop or the sensor loop, and change neither the frame queue
\* nor the breaker counter, the last-result slot or the last sensor reading.
C31_AccessorsOnlyRead == []C31_NeverBlocked /\ [][C31_AccessorStep]_vars

\* a handler has called get_readings and is in the middle of get_activity_status
\* while the worker is in a remote call and the sensor loop is in a read cycle
C31_Witness ==
    /\ statusPc = "activity"
    /\ Len(readingsResult) = 4
    /\ workerPc = "post"
    /\ sensorPc = "reading"
    /\ feedPc = "loop"

\* whatever api_error_count is, a waiting worker can take a queued frame to the
\* remote service, and a call in progress can succeed
C33_CallsGoOn ==
    /\ (workerPc = "get" /\ frame_queue # <<>>) => ENABLED WorkerGet
    /\ workerPc = "post" => ENABLED (WorkerPost /\ lastCall' = "result")

\* a call that succeeds with a result while the breaker is open sets the counter
\* to 0, and the status is then the result of that call
C33_SuccessCloses ==
    (/\ workerPc = "post" /\ workerPc' = "get"
     /\ api_error_count >= API_ERROR_THRESHOLD
     /\ lastCall' = "result")
    => /\ api_error_count' = 0
       /\ StatusOf(api_error_count', last_activity_result') # Unavailable
       /\ StatusOf(api_error_count', last_activity_result')[1] \in RemoteLabels

\* C33: the breaker can always close again: the worker submits every dequeued
\* frame whatever api_error_count is, and from a state with the counter at or
\* above the threshold a call that succeeds returns it to 0, after which
\* get_activity_status reports the remote result and not Unavailable.
C33_BreakerCanClose == []C33_CallsGoOn /\ [][C33_SuccessCloses]_vars

\* with the breaker open the worker is in a remote call and more frames wait
C33_Witness ==
    /\ api_error_count > API_ERROR_THRESHOLD
    /\ workerPc = "post"
    /\ Len(frame_queue) > 1

\* C34: below the threshold get_activity_status reports the result of the most
\* recent successful call, ("Unknown", 0.0) before the first: a call that
\* succeeds makes the reported pair the activity and probability of its response,
\* and any other call leaves the slot as it was.
C34_StatusIsLastSuccess ==
    [][(workerPc = "post" /\ workerPc' = "get") =>
         IF lastCall' \in {"result", "partial", "nofields"}
         THEN \E b \in Bodies :
                 /\ b.kind = lastCall'
                 /\ BodyKeys(b) = {"activity", "activity_probability"}
                 /\ StatusOf(api_error_count', last_activity_result')
                       = <<b.activity, b.activity_probability>>
         ELSE last_activity_result' = last_activity_result]_vars

\* C35: no accepted frame is lost or submitted twice: the worker is done with a
\* dequeued frame only when the remote call for that frame has returned or
\* raised, and each frame is dequeued once.
C35_EveryFrameSubmittedOnce ==
    [][completed' = completed + 1 =>
         /\ workerPc = "post" /\ workerPc' = "get"
         /\ workerFrame = dequeued[Len(dequeued)]
         /\ \A i, j \in 1..Len(dequeued) : i # j => dequeued[i] # dequeued[j]]_vars

\* C32: while the primary camera is streamed to a client the feed loop still
\* sees every frame the camera delivers, so the frames submitted to the queue
\* are every 3rd captured frame, starting with the first.
C32_StreamTakesNoFrames ==
    /\ frame_count = camera0
    /\ submittedDevice = {n \in 1..camera0 : (n - 1) % FRAME_SKIP = 0}

\* C11: what get_activity_status returns is the status of one state of
\* (api_error_count, last_activity_result) that existed during the call: label
\* and probability come from the same slot value, and Unavailable is returned
\* only for a state whose counter had reached the threshold.
C11_StatusIsAtomicSnapshot ==
    (statusPc = "idle" /\ statusResult # "none") =>
        \E p \in observed : statusResult = StatusOf(p[1], p[2])

(***************************************************************************)
(* Claims about the sensor poller.                                         *)
(***************************************************************************)
\* C4: a read cycle whose three attempts all fail (raise or give no value)
\* leaves last_readings as it was when the cycle started: temperature, humidity,
\* air quality, ppm and last_read_time keep the values of the last successful
\* cycle, and get_readings returns them.
C4_FailedCycleKeepsReadings ==
    (lastCycle = "failed" /\ sensorPc = "idle") =>
        /\ attemptsMade = MAX_RETRIES
        /\ last_readings = cycleReadings
        /\ get_readings = <<cycleReadings.temperature, cycleReadings.humidity,
                            cycleReadings.air_quality, cycleReadings.air_quality_ppm>>

\* a cycle failed after an earlier cycle had succeeded
C4_Witness ==
    /\ lastCycle = "failed"
    /\ sensorPc = "idle"
    /\ attemptsMade = MAX_RETRIES
    /\ last_readings.last_read_time > 0
    /\ last_readings.temperature # 0

\* C19: two successive read cycles are started at least SENSOR_READ_INTERVAL
\* (2 s) apart, whether the earlier one succeeded or failed.
C19_CyclesStartIntervalApart ==
    Len(cycleStarts) = 2 => cycleStarts[2] - cycleStarts[1] >= SENSOR_READ_INTERVAL

\* C20: a failed sensor read puts no placeholder in place of a value read before.
\* After a cycle in which reading temperature and humidity failed, last_readings
\* (last_read_time included) is what it was when the cycle started; after a cycle
\* in which reading the air quality failed, air_quality and air_quality_ppm are
\* what they were when the cycle started.
C20_FailedReadKeepsValues ==
    sensorPc = "idle" =>
        /\ lastCycle = "failed" => last_readings = cycleReadings
        /\ (lastCycle = "ok" /\ mqFailed) =>
              /\ last_readings.air_quality = cycleReadings.air_quality
              /\ last_readings.air_quality_ppm = cycleReadings.air_quality_ppm

\* between attempts of a cycle fewer than MAX_RETRIES attempts have been made,
\* and the next one can be made
C29_AttemptsBounded ==
    /\ attemptsMade <= MAX_RETRIES
    /\ sensorPc = "reading" =>
          /\ attemptsMade < MAX_RETRIES
          /\ now + READ_SLEEP + RETRY_DELAY <= Epoch + MaxTicks => ENABLED SensorAttempt

\* an attempt that obtains both values (and so updates last_readings) ends the
\* cycle with success; one that does not ends it with failure if it is the
\* third, and is followed by another if it is not
C29_AttemptStep ==
    (sensorPc = "reading" /\ attemptsMade' = attemptsMade + 1) =>
        IF last_readings' # last_readings
        THEN sensorPc' = "idle" /\ lastCycle' = "ok"
        ELSE IF attemptsMade' = MAX_RETRIES
        THEN sensorPc' = "idle" /\ lastCycle' = "failed"
        ELSE sensorPc' = "reading" /\ lastCycle' = lastCycle

\* C29: a read cycle ends after at most 3 attempts: it stops with success at the
\* first attempt that obtains both values, makes no fourth attempt, and reports
\* failure only after 3 attempts without values.
C29_CycleEndsWithinThreeAttempts == []C29_AttemptsBounded /\ [][C29_AttemptStep]_vars

\* a cycle has succeeded at its third attempt
C29_Witness ==
    /\ sensorPc = "idle"
    /\ lastCycle = "ok"
    /\ attemptsMade = MAX_RETRIES

\* C21: the four values get_readings returns together are the four fields of
\* one value that last_readings had during the call, so they all come from the
\* same read cycle.
C21_ReadingsAreOneSnapshot ==
    (readPc = 0 /\ Len(readingsResult) = 4) =>
        \E r \in readingsSeen : readingsResult = ReadingsTuple(r)

\* a client's frame loop is running
Running(c) == genPc[c] \in {"read", "detect"}

\* C23: the background model of a stream is mutated by one task only: no two
\* frame loops that run at the same time were given the same background
\* subtractor or the same capture device.
C23_OneLoopPerStream ==
    \A c, d \in Clients :
        (c # d /\ Running(c) /\ Running(d)) =>
            /\ genSubtractor[c] # genSubtractor[d]
            /\ genCamera[c] # genCamera[d]

\* C24: a detection call picks its parameters by the lighting mode of its frame:
\* cutoff 25 and a 3x3 kernel when the mean luminance is below 50, cutoff 30 and
\* a 5x5 kernel otherwise.
C24_ParametersFollowLighting ==
    maskParams # <<>> =>
        maskParams[2] = (IF maskParams[1] < 50
                         THEN [cutoff |-> 25, kernel |-> 3]
                         ELSE [cutoff |-> 30, kernel |-> 5])

\* C28: frame differencing replaces the mask of the background model exactly
\* when that mask has fewer than 100 changed pixels and there is a previous
\* frame; the first call of a stream has no previous frame and does not use it;
\* every later call is given the frame of the call just before it.
C28_DifferenceWhenSparse ==
    (maskSource # <<>> /\ maskSource.source # "disabled") =>
        /\ (maskSource.source = "difference")
              <=> (maskSource.sparse /\ maskSource.prev # <<>>)
        /\ maskSource.preceding = 0 =>
              (maskSource.prev = <<>> /\ maskSource.source # "difference")
        /\ maskSource.preceding # 0 =>
              (maskSource.prev # <<>> /\ maskSource.prev[1] = maskSource.preceding)

\* the detections of a list whose class carries the given dataset name
NamedDetections(dets, name) == SelectSeq(dets, LAMBDA d : DatasetNames[d.cls] = name)

\* the object of the dataset that stands for each activity
ObjectOf == [running |-> "wheel", eating |-> "food", drinking |-> "water"]

\* C37: detect_activity follows the dataset's class names: a detection of the
\* class named wheel sets the running score, one of food the eating score, one
\* of water the drinking score, each to the confidence of the (last such)
\* detection of the frame.
C37_ClassesMatchDataset ==
    \A n \in 1..Len(allResults) :
        n > FreeCalls =>
            \A a \in DOMAIN ObjectOf :
                LET ds == NamedDetections(Script(n - 1).dets, ObjectOf[a])
                IN  ds # <<>> => allResults[n][a] = ds[Len(ds)].conf

\* C38: in every result the exploring score is non-zero only when the averaged
\* motion exceeds the exploring threshold and none of running, eating, drinking
\* exceeds 0.3, and then sleeping is 0; exploring and sleeping are never both
\* non-zero; the returned activity is a label whose score is maximal.
C38_ExploringExcludesSleeping ==
    allResults # <<>> =>
        LET r == allResults[Len(allResults)]
            motion == Mean(motion_history)
        IN  /\ r.exploring # 0 =>
                  /\ motion > EXPLORING_THRESHOLD
                  /\ \A a \in {"running", "eating", "drinking"} : r[a] <= Milli(300)
                  /\ r.sleeping = 0
            /\ ~(r.exploring # 0 /\ r.sleeping # 0)
            /\ lastActivity \in LabelSet
            /\ \A a \in LabelSet : r[a] <= r[lastActivity]

\* a result scored as exploring and returned as such, after one with motion
\* above the threshold that a detection kept from being exploring
C38_Witness ==
    /\ Len(allResults) > 1
    /\ allResults[Len(allResults)].exploring > EXPLORING_THRESHOLD
    /\ lastActivity = "exploring"
    /\ \E n \in 1..(Len(allResults) - 1) :
           /\ allResults[n].exploring = 0
           /\ allResults[n].sleeping = 0
           /\ allResults[n].eating > Milli(300)

\* C36: the prev_frame a stream carries from one call of detect_hamster_activity
\* to the next is None or a grayscale frame of the stream, whatever frames came
\* and however detection was switched off and on, so frame differencing never
\* raises.
C36_PrevFrameIsGray ==
    \A c \in Clients :
        /\ genPrev[c] = <<>> \/ genPrev[c][2] = "gray"
        /\ genPc[c] # "crashed"

(***************************************************************************)
(* Claims about the zone/motion classifier.                                *)
(***************************************************************************)
\* C5: with detection enabled, once restingThreshold or more consecutive frames
\* had an all-zero motion mask the label returned is Resting, whatever the
\* previous activity and the no-movement counter were before that run.
C5_ZeroMaskRunIsResting ==
    (/\ lastConfig.ACTIVITY_DETECTION_ENABLED
     /\ lastLabel \notin {"none", "raised"}
     /\ zeroRun >= lastConfig.RESTING_THRESHOLD)
    => lastLabel = "Resting"

\* under the default config a run that started from a counter of 0 has just
\* become restingThreshold frames long
C5_Witness ==
    /\ lastConfig = DEFAULT_CONFIG
    /\ zeroRun = DEFAULT_CONFIG.RESTING_THRESHOLD
    /\ no_movement_frames = zeroRun
    /\ AllZero(lastFrame)
    /\ lastLabel = "Resting"

\* C6: wheel motion above 0.5 x movementThreshold, no motion in the food and
\* water zones and total motion above movementThreshold give RunningOnWheel,
\* not Exploring.
C6_WheelBeforeExploring ==
    (/\ lastConfig.ACTIVITY_DETECTION_ENABLED
     /\ lastLabel \notin {"none", "raised"}
     /\ 2 * lastFrame.wheel > lastConfig.MOVEMENT_THRESHOLD
     /\ lastFrame.food = 0
     /\ lastFrame.water = 0
     /\ lastFrame.movement > lastConfig.MOVEMENT_THRESHOLD)
    => lastLabel = "Running on wheel"

\* such a frame, with the wheel just above half the default threshold
C6_Witness ==
    /\ lastConfig = DEFAULT_CONFIG
    /\ lastFrame.wheel = 501
    /\ lastFrame.food = 0
    /\ lastFrame.water = 0
    /\ lastFrame.movement = 1001
    /\ lastLabel = "Running on wheel"

\* a step in which the stream classifies a frame: detection is enabled and the
\* call returns.  The frame is lastFrame', the counter the rules see is
\* no_movement_frames', the label returned is lastLabel'.
ClassifiedStep ==
    /\ streamPc = "running" /\ streamPc' = "running"
    /\ config' = config
    /\ config.ACTIVITY_DETECTION_ENABLED

\* the decision rules in their order, each with the line that tests it
RuleOrder == <<135, 137, 139, 141, 143>>

\* the rules that hold for a frame, as positions in RuleOrder
Matching(cfg, counter, f) ==
    {i \in 1..Len(RuleOrder) : RuleFires(RuleOrder[i], cfg, counter, f)}

\* the label of the first rule that holds, the previous label when none does
FirstMatch(cfg, counter, f, prev) ==
    IF Matching(cfg, counter, f) = {} THEN prev
    ELSE RuleLabel(RuleOrder[CHOOSE i \in Matching(cfg, counter, f) :
                                 \A j \in Matching(cfg, counter, f) : i <= j])

\* C25: for every counter and every combination of motion values the label is
\* that of the first rule that holds in the order Resting, RunningOnWheel,
\* Eating, DrinkingWater, Exploring, and the previous activity when none holds,
\* however large the motion of a later rule is.
C25_FirstMatchWins ==
    [][ClassifiedStep =>
         lastLabel' = FirstMatch(config, no_movement_frames', lastFrame', prev_activity)]_vars

\* Resting was returned for a frame whose wheel, food and water motion all exceed
\* their limits
C25_Witness ==
    /\ lastConfig.ACTIVITY_DETECTION_ENABLED
    /\ lastLabel = "Resting"
    /\ Cardinality(Matching(lastConfig, no_movement_frames, lastFrame)) = 4

\* the counter is one more than before when the frame is below the threshold
\* and 0 otherwise, and the rules see the counter so updated
C26_CounterStep ==
    ClassifiedStep =>
        /\ no_movement_frames' = (IF lastFrame'.movement < config.MOVEMENT_THRESHOLD
                                  THEN no_movement_frames + 1 ELSE 0)
        /\ no_movement_frames' >= config.RESTING_THRESHOLD => lastLabel' = "Resting"

\* the number of TRUE flags at the end of a sequence of flags
RECURSIVE TrailingRun(_)
TrailingRun(flags) ==
    IF flags = <<>> \/ ~flags[Len(flags)] THEN 0
    ELSE 1 + TrailingRun(SubSeq(flags, 1, Len(flags) - 1))

\* the counter is the length of the run of below-threshold frames that ends at
\* the last classified frame, as far as the remembered frames show it
C26_CounterIsRunLength ==
    streamPc = "running" =>
        IF TrailingRun(belowFlags) < Len(belowFlags) \/ Len(belowFlags) < RunWindow
        THEN no_movement_frames = TrailingRun(belowFlags)
        ELSE no_movement_frames >= RunWindow

\* C26: every classified frame adds exactly one to the no-movement counter when
\* its total motion is below movementThreshold and resets it to 0 otherwise
\* (equality included), before the rules are evaluated; so the counter is the
\* length of the current run of consecutive below-threshold frames.
C26_CounterCountsRun == []C26_CounterIsRunLength /\ [][C26_CounterStep]_vars

\* a frame with total motion equal to the threshold has just ended a run
C26_Witness ==
    /\ lastConfig.ACTIVITY_DETECTION_ENABLED
    /\ lastFrame.movement = lastConfig.MOVEMENT_THRESHOLD
    /\ belowFlags = <<TRUE, FALSE>>
    /\ no_movement_frames = 0
    /\ lastLabel \notin {"none", "raised"}

\* the label returned for the previous frame of the stream is the one carried
\* to the next call, and Exploring is carried to the first
C27_PreviousLabelIsCarried ==
    streamPc = "running" =>
        prev_activity = (IF lastLabel = "none" THEN "Exploring" ELSE lastLabel)

\* a classified frame that matches no rule gets the label of the previous frame
\* of the stream, Exploring on the first frame
C27_NoRuleStep ==
    (ClassifiedStep /\ Matching(config, no_movement_frames', lastFrame') = {}) =>
        lastLabel' = (IF lastLabel = "none" THEN "Exploring" ELSE lastLabel)

\* C27: when no rule matches the classifier returns the label it returned for
\* the previous frame of the same stream, Exploring on the first frame of the
\* stream: the output is always defined and such a frame never changes the label.
C27_NoRuleKeepsLabel == []C27_PreviousLabelIsCarried /\ [][C27_NoRuleStep]_vars

\* a frame that matches no rule, total motion equal to the threshold, has kept
\* the label Eating
C27_Witness ==
    /\ lastConfig.ACTIVITY_DETECTION_ENABLED
    /\ lastLabel = "Eating"
    /\ lastFrame.movement = lastConfig.MOVEMENT_THRESHOLD
    /\ Matching(lastConfig, no_movement_frames, lastFrame) = {}

\* the activity labels of the zone classifier (Resting, RunningOnWheel, Eating,
\* DrinkingWater, Exploring) as main.py spells them
ZoneLabels == {"Resting", "Running on wheel", "Eating", "Drinking water", "Exploring"}

\* C15: whatever frames and replacements of the configuration came before, the
\* label detect_hamster_activity returns while detection is enabled is an activity
\* label, and so is the previous activity carried to the next call.
C15_LabelsAreActivityLabels ==
    /\ (lastConfig.ACTIVITY_DETECTION_ENABLED /\ lastLabel \notin {"none", "raised"})
          => lastLabel \in ZoneLabels
    /\ prev_activity \in ZoneLabels

\* C14: a call of detect_hamster_activity that runs while POST /config replaces
\* the configuration returns what it would return under one of the
\* configurations there were during the call, all its reads taken from that one.
C14_CallUsesOneConfig ==
    callPc = 235 =>
        \E c \in callSeen :
            LET r == detect_hamster_activity(c, callFrame, callSparse, prev_activity,
                                             no_movement_frames, prev_frame)
            IN  /\ ~r.raised
                /\ callResult = [activity |-> r.activity, counter |-> r.counter,
                                 frame |-> r.frame]

(***************************************************************************)
(* Claims about the activity history.                                      *)
(***************************************************************************)
Min(a, b) == IF a < b THEN a ELSE b

\* the last n elements of a sequence
LastN(q, n) == SubSeq(q, Len(q) - n + 1, Len(q))

\* C7: the activity history never holds more than 30 entries; after N calls of
\* detect_activity it holds the min(N, 30) most recent results in insertion
\* order, so recording a result when 30 are held removes exactly the oldest.
C7_HistoryKeepsLast30 ==
    /\ Len(activity_history) <= 30
    /\ Len(activity_history) = Min(Len(allResults), 30)
    /\ activity_history = LastN(allResults, Min(Len(allResults), 30))

\* a 32nd result was recorded; the two oldest results, which differ from those that
\* follow them, are gone
C7_Witness ==
    /\ Len(allResults) = 32
    /\ Len(activity_history) = 30
    /\ allResults[1] # allResults[2]
    /\ allResults[2] # allResults[3]
    /\ activity_history[1] = allResults[3]

\* C8: get_activity_pattern has exactly one entry for each of the five labels;
\* each is the sum of the label's score over the retained results (the last
\* min(N, 30) of the N recorded) divided by their number, and 0 when the
\* history is empty.
C8_PatternIsMeanOfRetained ==
    LET n == Min(Len(allResults), 30)
        kept == LastN(allResults, n)
        pat == get_activity_pattern
    IN  /\ DOMAIN pat = {"running", "eating", "drinking", "sleeping", "exploring"}
        /\ \A a \in DOMAIN pat :
              IF n = 0
              THEN pat[a].num = 0 /\ pat[a].den = 1
              ELSE /\ pat[a].den = n
                   /\ pat[a].num = SumSeq([i \in 1..n |-> kept[i][a]])

\* more results were recorded than are retained, and the first one, which is left
\* out of the mean, had a score that the retained ones do not sum to
C8_Witness ==
    /\ Len(allResults) > 30
    /\ get_activity_pattern["sleeping"].den = 30
    /\ allResults[1]["eating"] > 0
    /\ get_activity_pattern["eating"].num > 0
    /\ get_activity_pattern["eating"].num
         # SumSeq([i \in 1..30 |-> allResults[i]["eating"]])

====
